---------------------------- MODULE Spec2Model ----------------------------
(***************************************************************************)
(* Data harmonization and analytics engine of the fashionpulse dashboard:  *)
(* the DataHarmonizer accumulator object, the European sheet-row           *)
(* transformer and the weekday-position date alignment.                    *)
(*                                                                         *)
(* A JavaScript Date is modelled as its time value in HOURS since          *)
(* 1970-01-01T00:00Z; the process time zone is a fixed offset tz (local    *)
(* time = UTC + tz hours).  Calendar days are day numbers since            *)
(* 1970-01-01.  Months are 0-based where the code uses the JS Date API     *)
(* (getMonth, new Date(y, m, d)) and 1-based inside date texts.            *)
(***************************************************************************)
EXTENDS Integers, Sequences, FiniteSets, TLC

VARIABLES
    tz,              \* process time-zone offset in hours (local = UTC + tz)
    historicalData,  \* DataHarmonizer.historicalData
    liveData,        \* DataHarmonizer.liveData
    targets,         \* DataHarmonizer.targets
    events,          \* DataHarmonizer.events
    errors,          \* DataHarmonizer.errors
    held,            \* a HarmonizedData object returned earlier, still held by a caller
    later,           \* history: calls made since the held object was returned
    input,           \* the argument of the last call
    ret,             \* the value returned by the last call
    calls,           \* history: add calls since construction / clear()
    errorCalls,      \* history: those of them that reported errors > 0
    filters          \* useDashboardStore: filters (null where the store takes no part)

vars == <<tz, historicalData, liveData, targets, events, errors, held, later, input, ret,
          calls, errorCalls, filters>>

-----------------------------------------------------------------------------
(* Bounds of the model *)

FirstYear == 2023
YearSpan == 3
\* the add calls a harmonizer receives after its construction or a clear()
MaxCalls == 2
\* the calls a harmonizer receives while a caller holds a dataset it returned
MaxLater == 1
\* the longest sheet handed to transformSheetData on its own
MaxRows == 3

TZOffsets == {-5, 0, 1}

-----------------------------------------------------------------------------
(* The JavaScript Date API, as far as the code uses it *)

HoursPerDay == 24

FloorDiv(a, b) == a \div b

\* days since 1970-01-01 of the civil date y-m-d (m is 1-based)
DaysFromCivil(y, m, d) ==
    LET Days(era, yoe, doy) ==
            era * 146097 + (yoe * 365 + yoe \div 4 - yoe \div 100 + doy) - 719468
        OfMarchYear(yy, mp) ==
            Days(FloorDiv(yy, 400), yy % 400, (153 * mp + 2) \div 5 + d - 1)
    IN  OfMarchYear(IF m <= 2 THEN y - 1 ELSE y, IF m > 2 THEN m - 3 ELSE m + 9)

\* the civil date (m is 1-based) of a day number
CivilFromDays(z) ==
    LET Civil(era, yoe, doy, mp) ==
            [y |-> yoe + era * 400 + (IF mp >= 10 THEN 1 ELSE 0),
             m |-> IF mp < 10 THEN mp + 3 ELSE mp - 9,
             d |-> doy - (153 * mp + 2) \div 5 + 1]
        OfDayOfYear(era, yoe, doy) == Civil(era, yoe, doy, (5 * doy + 2) \div 153)
        OfYearOfEra(era, doe, yoe) ==
            OfDayOfYear(era, yoe, doe - (365 * yoe + yoe \div 4 - yoe \div 100))
        OfDayOfEra(era, doe) ==
            OfYearOfEra(era, doe,
                (doe - doe \div 1460 + doe \div 36524 - doe \div 146096) \div 365)
        OfShifted(zz) == OfDayOfEra(FloorDiv(zz, 146097), zz % 146097)
    IN  OfShifted(z + 719468)

\* the calendar day of a time value in the process time zone / in UTC
LocalDay(t) == FloorDiv(t + tz, HoursPerDay)

\* new Date(year, month, day): local midnight; month is 0-based, day overflows
NewDate(year, month, day) ==
    (DaysFromCivil(year, month + 1, 1) + day - 1) * HoursPerDay - tz

GetFullYear(t) == CivilFromDays(LocalDay(t)).y
GetMonth(t) == CivilFromDays(LocalDay(t)).m - 1
GetDate(t) == CivilFromDays(LocalDay(t)).d
\* 0 = Sunday; 1970-01-01 was a Thursday
GetDay(t) == (LocalDay(t) + 4) % 7

\* Math.ceil(a / b) for a >= 0, b > 0
CeilDiv(a, b) == (a + b - 1) \div b

-----------------------------------------------------------------------------
(* analytics.ts: date utilities *)

getWeekOfMonth(date) ==
    LET firstDay == NewDate(GetFullYear(date), GetMonth(date), 1)
        firstDayOfWeek == GetDay(firstDay)
        dayOfMonth == GetDate(date)
    IN  CeilDiv(dayOfMonth + firstDayOfWeek, 7)

getDaysInMonth(year, month) == GetDate(NewDate(year, month + 1, 0))

\* A nullable value: Null, or Some(v) with the value Value(s)
Null == <<>>
Some(v) == <<v>>
Value(s) == s[1]

\* the loop returns the first day whose running count of matching weekdays is n
getNthWeekdayOfMonth(year, month, weekday, n) ==
    LET Matches(upTo) ==
            Cardinality({dd \in 1..upTo : GetDay(NewDate(year, month, dd)) = weekday})
        First(hits) ==
            IF hits = {} THEN Null
            ELSE Some(NewDate(year, month, CHOOSE day \in hits : \A o \in hits : day <= o))
    IN  First({day \in 1..getDaysInMonth(year, month) :
                  /\ GetDay(NewDate(year, month, day)) = weekday
                  /\ Matches(day) = n})

alignDateByDayOfWeek(currentDate) ==
    LET weekday == GetDay(currentDate)
        weekOfMonth == getWeekOfMonth(currentDate)
        OrFallback(alignedDate, previousYear, month) ==
            IF alignedDate = Null
            THEN NewDate(previousYear, month, GetDate(currentDate))
            ELSE Value(alignedDate)
        InMonth(previousYear, month) ==
            OrFallback(getNthWeekdayOfMonth(previousYear, month, weekday, weekOfMonth),
                       previousYear, month)
    IN  InMonth(GetFullYear(currentDate) - 1, GetMonth(currentDate))

-----------------------------------------------------------------------------
(* JavaScript numbers, as exact rationals <<numerator, denominator>> with  *)
(* a positive denominator and in lowest terms.                             *)

RECURSIVE Gcd(_, _)
Gcd(a, b) == IF b = 0 THEN a ELSE Gcd(b, a % b)

Rat(n, d) ==
    LET Reduced(s, g) == <<(s * n) \div g, (s * d) \div g>>
    IN  Reduced(IF d < 0 THEN -1 ELSE 1,
                Gcd(IF n < 0 THEN -n ELSE n, IF d < 0 THEN -d ELSE d))

Num(i) == <<i, 1>>
Zero == Num(0)
RAdd(a, b) == Rat(a[1] * b[2] + b[1] * a[2], a[2] * b[2])
RSub(a, b) == Rat(a[1] * b[2] - b[1] * a[2], a[2] * b[2])
RMul(a, b) == Rat(a[1] * b[1], a[2] * b[2])
\* a / b for b # 0
RDiv(a, b) == Rat(a[1] * b[2], a[2] * b[1])
RLess(a, b) == a[1] * b[2] < b[1] * a[2]
RPositive(a) == a[1] > 0

-----------------------------------------------------------------------------
(* Texts.  A cell text is a sequence of one-character strings; a cell the  *)
(* row has no key for is Undefined.  A date text is a record of its        *)
(* spelling and numbers (m is 1-based): [fmt, y, m, d].                    *)

Undefined == <<"undefined">>

\* !value for a string or undefined
Falsy(s) == s = Undefined \/ s = <<>>
\* a || b
OrElse(a, b) == IF Falsy(a) THEN b ELSE a

Digits == {"0", "1", "2", "3", "4", "5", "6", "7", "8", "9"}
DigitValue(c) ==
    CASE c = "0" -> 0 [] c = "1" -> 1 [] c = "2" -> 2 [] c = "3" -> 3 [] c = "4" -> 4
      [] c = "5" -> 5 [] c = "6" -> 6 [] c = "7" -> 7 [] c = "8" -> 8 [] c = "9" -> 9

RECURSIVE Pow10(_)
Pow10(k) == IF k = 0 THEN 1 ELSE 10 * Pow10(k - 1)

\* the value of a sequence of digits
RECURSIVE DigitsValue(_)
DigitsValue(s) ==
    IF s = <<>> THEN 0 ELSE 10 * DigitsValue(SubSeq(s, 1, Len(s) - 1)) + DigitValue(s[Len(s)])

\* String.prototype.trim
RECURSIVE Trim(_)
Trim(s) ==
    IF s = <<>> THEN s
    ELSE IF s[1] \in {" ", "\r", "\n"} THEN Trim(Tail(s))
    ELSE IF s[Len(s)] \in {" ", "\r", "\n"} THEN Trim(SubSeq(s, 1, Len(s) - 1))
    ELSE s

\* the longest prefix of s made of digits
RECURSIVE DigitPrefix(_)
DigitPrefix(s) ==
    IF s # <<>> /\ s[1] \in Digits THEN <<s[1]>> \o DigitPrefix(Tail(s)) ELSE <<>>

NaN == <<>>

\* parseFloat on sign, digits, one decimal point and the word Infinity (no
\* exponent): the longest numeric prefix, NaN when there is none.  The
\* infinities are <<1, 0>> and <<-1, 0>>.
parseFloat(str) ==
    LET Signed(neg, mag) == IF neg THEN RSub(Zero, mag) ELSE mag
        Number(neg, int, frac) ==
            IF int = <<>> /\ frac = <<>> THEN NaN
            ELSE Signed(neg, Rat(DigitsValue(int) * Pow10(Len(frac)) + DigitsValue(frac),
                                 Pow10(Len(frac))))
        FractionOf(rest) ==
            IF rest # <<>> /\ rest[1] = "." THEN DigitPrefix(Tail(rest)) ELSE <<>>
        OfInt(neg, body, int) ==
            Number(neg, int, FractionOf(SubSeq(body, Len(int) + 1, Len(body))))
        OfBody(neg, body) ==
            IF Len(body) >= 8 /\ SubSeq(body, 1, 8) = <<"I", "n", "f", "i", "n", "i", "t", "y">>
            THEN <<IF neg THEN -1 ELSE 1, 0>>
            ELSE OfInt(neg, body, DigitPrefix(body))
        OfTrimmed(s) ==
            OfBody(s # <<>> /\ s[1] = "-",
                   IF s # <<>> /\ s[1] \in {"-", "+"} THEN Tail(s) ELSE s)
    IN  OfTrimmed(Trim(str))

-----------------------------------------------------------------------------
(* sheetTransformer.ts: European format utilities *)

\* The value is the text of a cell or undefined (null takes the same branch
\* as undefined; the branch that returns a number as it is, is left out).
parseEuropeanNumber(value) ==
    IF value = Undefined \/ value = <<>> THEN Zero
    ELSE LET strVal == Trim(value)
             noDots == SelectSeq(strVal, LAMBDA x : x # ".")
             \* noDots.replace(',', '.'): only the first occurrence
             withDecimal ==
                 IF \E i \in 1..Len(noDots) : noDots[i] = ","
                 THEN [noDots EXCEPT ![CHOOSE k \in 1..Len(noDots) :
                                          /\ noDots[k] = ","
                                          /\ \A j \in 1..(k - 1) : noDots[j] # ","] = "."]
                 ELSE noDots
             OrZero(parsed) == IF parsed = NaN THEN Zero ELSE parsed
         IN  OrZero(parseFloat(withDecimal))

\* Date texts: the spellings the parsers tell apart
DateText(fmt, y, m, d) == [fmt |-> fmt, y |-> y, m |-> m, d |-> d]
UndefinedDate == DateText("undefined", 0, 0, 0)
JunkDate == DateText("junk", 0, 0, 0)

FalsyDate(text) == text.fmt \in {"", "undefined"}

\* the numbers of a date text name a day of the calendar
IsCalendarDate(text) ==
    /\ text.m \in 1..12
    /\ text.d >= 1
    /\ text.d <= GetDate(NewDate(text.y, text.m, 0))

\* date.toISOString().split('T')[0]: the UTC calendar day
ToISODate(t) ==
    LET Text(c) == DateText("yyyy-MM-dd", c.y, c.m, c.d) IN Text(CivilFromDays(FloorDiv(t, HoursPerDay)))

\* date-fns parse(text, pattern, new Date()) followed by isValid: local midnight
ParseWith(text, patterns) ==
    IF text.fmt \in patterns /\ IsCalendarDate(text)
    THEN Some(NewDate(text.y, text.m - 1, text.d))
    ELSE Null

parseEuropeanDate(value) ==
    IF FalsyDate(value) THEN Null
    ELSE LET OrParse(attempt, patterns) ==
                 IF attempt = Null THEN ParseWith(value, patterns) ELSE attempt
             attempt1 == ParseWith(value, {"d-M-yyyy"})
             attempt2 == OrParse(attempt1, {"d-M-yyyy", "d/M/yyyy", "d.M.yyyy"})
             attempt3 == OrParse(attempt2, {"yyyy-MM-dd"})
         IN  attempt3

-----------------------------------------------------------------------------
(* sheetTransformer.ts: row transformation.  A raw sheet row is a record   *)
(* of cells: Date is a date text, Label a string ("" when blank or         *)
(* absent), the numeric cells are cell texts.                              *)

\* a variant of isEmptyRow that takes a row for empty when either cell is blank
isEmptyRowEitherBlank(rawRow) == FalsyDate(rawRow.Date) \/ rawRow.Label = ""

isEmptyRow(rawRow) == FalsyDate(rawRow.Date) /\ rawRow.Label = ""

\* { row, isEmpty }
transformSheetRow(rawRow) ==
    LET Row(parsedDate, revenueWeb, revenueApp, ordersTotal, ordersApp,
            conversionsFb, conversionsGoogle, spendFb, spendGoogle,
            totalRevenue, totalSpend) ==
            [date |-> parsedDate,
             dateString |-> DateText("yyyy-MM-dd", CivilFromDays(LocalDay(parsedDate)).y,
                                      CivilFromDays(LocalDay(parsedDate)).m,
                                      CivilFromDays(LocalDay(parsedDate)).d),
             brand |-> IF rawRow.Label = "" THEN "Unknown" ELSE rawRow.Label,
             revenueWeb |-> revenueWeb,
             revenueApp |-> revenueApp,
             totalRevenue |-> totalRevenue,
             ordersTotal |-> ordersTotal,
             ordersApp |-> ordersApp,
             ordersWeb |-> RSub(ordersTotal, ordersApp),
             conversionsFb |-> conversionsFb,
             conversionsGoogle |-> conversionsGoogle,
             totalConversions |-> RAdd(conversionsFb, conversionsGoogle),
             spendFb |-> spendFb,
             spendGoogle |-> spendGoogle,
             totalSpend |-> totalSpend,
             aov |-> IF RPositive(ordersTotal) THEN RDiv(totalRevenue, ordersTotal) ELSE Zero,
             mer |-> IF RPositive(totalRevenue) THEN RDiv(totalSpend, totalRevenue) ELSE Zero,
             contributionMargin |-> RSub(totalRevenue, totalSpend),
             dayOfWeek |-> GetDay(parsedDate),
             weekOfMonth |-> getWeekOfMonth(parsedDate),
             monthDay |-> GetDate(parsedDate)]
        Parsed(parsedDate, revenueWeb, revenueApp, spendFb, spendGoogle) ==
            Row(parsedDate, revenueWeb, revenueApp,
                parseEuropeanNumber(rawRow.Orders),
                parseEuropeanNumber(rawRow.Orders_App),
                parseEuropeanNumber(rawRow.Conv_FB),
                parseEuropeanNumber(OrElse(rawRow.Conv_Google, rawRow.Conversions_Google)),
                spendFb, spendGoogle,
                RAdd(revenueWeb, revenueApp), RAdd(spendFb, spendGoogle))
        OfDate(parsedDate) ==
            IF parsedDate = Null THEN [row |-> Null, isEmpty |-> FALSE]
            ELSE [row |-> Some(Parsed(Value(parsedDate),
                                      parseEuropeanNumber(rawRow.Rev_Web),
                                      parseEuropeanNumber(rawRow.Rev_App),
                                      parseEuropeanNumber(rawRow.Spend_FB),
                                      parseEuropeanNumber(rawRow.Spend_Google))),
                  isEmpty |-> FALSE]
    IN  IF isEmptyRow(rawRow) THEN [row |-> Null, isEmpty |-> TRUE]
        ELSE OfDate(parseEuropeanDate(rawRow.Date))

\* Array.prototype.sort with the comparator a.date - b.date: stable, ascending
RECURSIVE InsertByDate(_, _)
InsertByDate(sorted, x) ==
    IF sorted = <<>> THEN <<x>>
    ELSE IF sorted[Len(sorted)].date <= x.date THEN Append(sorted, x)
    ELSE Append(InsertByDate(SubSeq(sorted, 1, Len(sorted) - 1), x), sorted[Len(sorted)])

RECURSIVE SortByDate(_)
SortByDate(s) ==
    IF s = <<>> THEN <<>>
    ELSE InsertByDate(SortByDate(SubSeq(s, 1, Len(s) - 1)), s[Len(s)])

\* the loop of transformSheetData over the first k rows: { data, errors } before the sort
RECURSIVE TransformRows(_, _)
TransformRows(rawRows, k) ==
    IF k = 0 THEN [data |-> <<>>, errors |-> 0]
    ELSE LET Step(before, result) ==
                 IF result.isEmpty THEN before
                 ELSE IF result.row # Null
                      THEN [before EXCEPT !.data = Append(@, Value(result.row))]
                      ELSE [before EXCEPT !.errors = @ + 1]
         IN  Step(TransformRows(rawRows, k - 1), transformSheetRow(rawRows[k]))

transformSheetData(rawRows) ==
    LET Sorted(looped) == [data |-> SortByDate(looped.data), errors |-> looped.errors]
    IN  Sorted(TransformRows(rawRows, Len(rawRows)))

toCompatibleMetrics(row) ==
    [date |-> row.date,
     dateString |-> row.dateString,
     label |-> row.brand,
     revenueWeb |-> row.revenueWeb,
     revenueApp |-> row.revenueApp,
     totalRevenue |-> row.totalRevenue,
     orders |-> row.ordersTotal,
     aov |-> row.aov,
     spendFB |-> row.spendFb,
     spendGoogle |-> row.spendGoogle,
     totalSpend |-> row.totalSpend,
     clicksFB |-> row.conversionsFb,
     clicksGoogle |-> row.conversionsGoogle,
     totalClicks |-> RAdd(row.conversionsFb, row.conversionsGoogle),
     mer |-> row.mer,
     contributionMargin |-> row.contributionMargin,
     roasFB |-> IF RPositive(row.spendFb)
                THEN RDiv(RMul(row.revenueWeb, Rat(6, 10)), row.spendFb) ELSE Zero,
     roasGoogle |-> IF RPositive(row.spendGoogle)
                    THEN RDiv(RMul(row.revenueWeb, Rat(4, 10)), row.spendGoogle) ELSE Zero,
     dayOfWeek |-> row.dayOfWeek,
     weekOfMonth |-> row.weekOfMonth,
     monthDay |-> row.monthDay]

\* data.map(toCompatibleMetrics)

-----------------------------------------------------------------------------
(* types: validation of JSON rows (zod schemas).  A JSON row is a record:  *)
(* Date a date text, Label a string or MissingLabel, each numeric cell a   *)
(* number or NaN where the key is absent.                                  *)

MissingLabel == "\\undefined"

\* Date.parse(text) / new Date(text) for the spellings ECMAScript defines:
\* a date-only ISO text is UTC midnight, a date-time without offset is local
DateParse(text) ==
    CASE text.fmt = "yyyy-MM-dd" ->
            IF IsCalendarDate(text)
            THEN Some(DaysFromCivil(text.y, text.m, text.d) * HoursPerDay) ELSE Null
      [] text.fmt = "yyyy-MM-ddT00:00" ->
            IF IsCalendarDate(text) THEN Some(NewDate(text.y, text.m - 1, text.d)) ELSE Null
      [] text.fmt \in {"", "undefined", "junk"} -> Null

\* z.preprocess((val) => Number(val) || 0, ...)
NumberOrZero(val) == IF val = NaN THEN Zero ELSE val

NumericKeys == {"Rev_Web", "Rev_App", "Orders", "Spend_FB", "Spend_Google",
                "Clicks_FB", "Clicks_Google"}

\* DataRowSchema.parse inside try/catch: the parsed row, or null
parseDataRow(row) ==
    IF /\ DateParse(row.Date) # Null
       /\ row.Label # MissingLabel
       /\ \A k \in NumericKeys : ~RLess(NumberOrZero(row[k]), Zero)
       /\ \A k \in {"Orders", "Clicks_FB", "Clicks_Google"} : NumberOrZero(row[k])[2] = 1
    THEN Some([k \in DOMAIN row |->
                 IF k \in NumericKeys THEN NumberOrZero(row[k]) ELSE row[k]])
    ELSE Null

\* safeParseRows(rows, parseDataRow) over the first k rows: { valid, errors }
RECURSIVE safeParseRows(_, _)
safeParseRows(rows, k) ==
    IF k = 0 THEN [valid |-> <<>>, errors |-> 0]
    ELSE LET Step(before, parsed) ==
                 IF parsed # Null
                 THEN [before EXCEPT !.valid = Append(@, Value(parsed))]
                 ELSE [before EXCEPT !.errors = @ + 1]
         IN  Step(safeParseRows(rows, k - 1), parseDataRow(rows[k]))

\* analytics.ts
transformToMetrics(row) ==
    LET Metrics(date, totalRevenue, totalSpend) ==
        [date |-> date,
         dateString |-> row.Date,
         label |-> row.Label,
         revenueWeb |-> row.Rev_Web,
         revenueApp |-> row.Rev_App,
         totalRevenue |-> totalRevenue,
         orders |-> row.Orders,
         aov |-> IF RPositive(row.Orders) THEN RDiv(totalRevenue, row.Orders) ELSE Zero,
         spendFB |-> row.Spend_FB,
         spendGoogle |-> row.Spend_Google,
         totalSpend |-> totalSpend,
         clicksFB |-> row.Clicks_FB,
         clicksGoogle |-> row.Clicks_Google,
         totalClicks |-> RAdd(row.Clicks_FB, row.Clicks_Google),
         mer |-> IF RPositive(totalRevenue) THEN RDiv(totalSpend, totalRevenue) ELSE Zero,
         contributionMargin |-> RSub(totalRevenue, totalSpend),
         roasFB |-> IF RPositive(row.Spend_FB)
                    THEN RDiv(RMul(row.Rev_Web, Rat(6, 10)), row.Spend_FB) ELSE Zero,
         roasGoogle |-> IF RPositive(row.Spend_Google)
                        THEN RDiv(RMul(row.Rev_Web, Rat(4, 10)), row.Spend_Google) ELSE Zero,
         dayOfWeek |-> GetDay(date),
         weekOfMonth |-> getWeekOfMonth(date),
         monthDay |-> GetDate(date)]
    IN  Metrics(Value(DateParse(row.Date)),
                RAdd(row.Rev_Web, row.Rev_App),
                RAdd(row.Spend_FB, row.Spend_Google))

-----------------------------------------------------------------------------
(* dataHarmonizer: parsing of target and event rows.  In a target or event *)
(* row the month and the numeric cells are cell texts, the other cells are *)
(* strings with "" for a blank or absent cell.                             *)

\* a || b on strings
StrOr(a, b) == IF a = "" THEN b ELSE a

\* a variant of normalizeMonth without padStart(2, '0')
normalizeMonthUnpadded(monthStr) ==
    LET k == Len(monthStr) - 5
        matches ==
            /\ k \in {1, 2}
            /\ \A i \in 1..k : monthStr[i] \in Digits
            /\ monthStr[k + 1] \in {"-", "/"}
            /\ \A i \in (k + 2)..(k + 5) : monthStr[i] \in Digits
    IN  IF matches
        THEN SubSeq(monthStr, k + 2, k + 5) \o <<"-">> \o SubSeq(monthStr, 1, k)
        ELSE monthStr

\* monthStr.match(/^(\d{1,2})[-\/](\d{4})$/) and the template `${year}-${month}`
normalizeMonth(monthStr) ==
    LET k == Len(monthStr) - 5
        matches ==
            /\ k \in {1, 2}
            /\ \A i \in 1..k : monthStr[i] \in Digits
            /\ monthStr[k + 1] \in {"-", "/"}
            /\ \A i \in (k + 2)..(k + 5) : monthStr[i] \in Digits
        month == IF k = 1 THEN <<"0", monthStr[1]>> ELSE SubSeq(monthStr, 1, 2)
        year == SubSeq(monthStr, k + 2, k + 5)
    IN  IF matches THEN year \o <<"-">> \o month ELSE monthStr

\* a variant of ParseTargetRow that also skips a row whose month does not
\* normalize to yyyy-MM
ParseTargetRowStrict(r) ==
    LET rawMonth == OrElse(r.Month, OrElse(r.month, <<>>))
        IsYearMonth(month) ==
            /\ Len(month) = 7
            /\ month[5] = "-"
            /\ \A i \in {1, 2, 3, 4, 6, 7} : month[i] \in Digits
        Fraction(raw) == IF RLess(Num(1), raw) THEN RDiv(raw, Num(100)) ELSE raw
        Target(month) ==
            IF Falsy(rawMonth) \/ ~IsYearMonth(month) THEN Null
            ELSE Some([month |-> month,
                       label |-> StrOr(r.Label, StrOr(r.label, "All")),
                       revenueTarget |-> parseEuropeanNumber(
                           OrElse(r.Rev_target, OrElse(r.Revenue_Target,
                               OrElse(r.revenue_target, OrElse(r.RevenueTarget, <<"0">>))))),
                       ordersTarget |-> parseEuropeanNumber(
                           OrElse(r.Orders_Target,
                               OrElse(r.orders_target, OrElse(r.OrdersTarget, <<"0">>)))),
                       merTarget |-> Fraction(parseEuropeanNumber(
                           OrElse(r.MER_Target,
                               OrElse(r.mer_target, OrElse(r.MERTarget, <<"0", ".", "2">>)))))])
    IN  Target(normalizeMonth(rawMonth))

\* one iteration of the loop of addTargets: the target pushed, or Null when
\* the row is skipped and counted as an error
ParseTargetRow(r) ==
    LET rawMonth == OrElse(r.Month, OrElse(r.month, <<>>))
        label == StrOr(r.Label, StrOr(r.label, "All"))
        month == normalizeMonth(rawMonth)
        revenueTarget == parseEuropeanNumber(
            OrElse(r.Rev_target, OrElse(r.Revenue_Target,
                OrElse(r.revenue_target, OrElse(r.RevenueTarget, <<"0">>)))))
        ordersTarget == parseEuropeanNumber(
            OrElse(r.Orders_Target, OrElse(r.orders_target, OrElse(r.OrdersTarget, <<"0">>))))
        merTargetRaw == parseEuropeanNumber(
            OrElse(r.MER_Target, OrElse(r.mer_target, OrElse(r.MERTarget, <<"0", ".", "2">>))))
        Fraction(raw) == IF RLess(Num(1), raw) THEN RDiv(raw, Num(100)) ELSE raw
        merTarget == Fraction(merTargetRaw)
    IN  IF Falsy(rawMonth) THEN Null
        ELSE Some([month |-> month,
                   label |-> label,
                   revenueTarget |-> revenueTarget,
                   ordersTarget |-> ordersTarget,
                   merTarget |-> merTarget])

\* the loop of addTargets over the first k rows: { targets, errors }
RECURSIVE ParseTargets(_, _)
ParseTargets(rawData, k) ==
    IF k = 0 THEN [targets |-> <<>>, errors |-> 0]
    ELSE LET Step(before, parsed) ==
                 IF parsed # Null
                 THEN [before EXCEPT !.targets = Append(@, Value(parsed))]
                 ELSE [before EXCEPT !.errors = @ + 1]
         IN  Step(ParseTargets(rawData, k - 1), ParseTargetRow(rawData[k]))

\* one iteration of the loop of addEvents: "skip" (no date), "error", or the event
ParseEventRow(row) ==
    LET dateStr == IF FalsyDate(row.Date) THEN row.date ELSE row.Date
        \* dateStr.includes('-') && dateStr.split('-')[0].length <= 2
        european == dateStr.fmt = "d-M-yyyy"
        \* String.prototype.toLowerCase on the event types of the sheet
        ToLowerCase(str) ==
            CASE str = "Marketing" -> "marketing"
              [] str = "Holiday" -> "holiday"
              [] OTHER -> str
        OfDate(date) ==
            IF date = Null THEN [kind |-> "error"]
            ELSE [kind |-> "event",
                  event |-> [date |-> Value(date),
                             dateString |-> ToISODate(Value(date)),
                             title |-> StrOr(row.Title, StrOr(row.title, "Event")),
                             description |-> StrOr(row.Description, row.description),
                             type |-> ToLowerCase(StrOr(row.Type, StrOr(row.type, "other"))),
                             label |-> StrOr(row.Label, row.label)]]
    IN  IF FalsyDate(dateStr) THEN [kind |-> "skip"]
        ELSE OfDate(IF european
                    THEN Some(NewDate(dateStr.y, dateStr.m - 1, dateStr.d))
                    ELSE DateParse(dateStr))

\* the loop of addEvents over the first k rows: { events, errors }
RECURSIVE ParseEvents(_, _)
ParseEvents(rawData, k) ==
    IF k = 0 THEN [events |-> <<>>, errors |-> 0]
    ELSE LET Step(before, parsed) ==
                 CASE parsed.kind = "skip" -> before
                   [] parsed.kind = "error" -> [before EXCEPT !.errors = @ + 1]
                   [] parsed.kind = "event" -> [before EXCEPT !.events = Append(@, parsed.event)]
         IN  Step(ParseEvents(rawData, k - 1), ParseEventRow(rawData[k]))

-----------------------------------------------------------------------------
(* dataHarmonizer: gap filling and the harmonized output *)

\* [...new Set(seq)]: the distinct elements in order of first appearance
RECURSIVE Distinct(_)
Distinct(seq) ==
    IF seq = <<>> THEN <<>>
    ELSE LET Step(before, x) ==
                 IF \E i \in 1..Len(before) : before[i] = x THEN before ELSE Append(before, x)
         IN  Step(Distinct(SubSeq(seq, 1, Len(seq) - 1)), seq[Len(seq)])


\* the template `${dateString}-${label}`
Key(dateString, label) == <<dateString, label>>

\* the record pushed for a missing (day, label)
GapMetric(current, label) ==
    [date |-> current,
     dateString |-> ToISODate(current),
     label |-> label,
     revenueWeb |-> Zero, revenueApp |-> Zero, totalRevenue |-> Zero,
     orders |-> Zero, aov |-> Zero,
     spendFB |-> Zero, spendGoogle |-> Zero, totalSpend |-> Zero,
     clicksFB |-> Zero, clicksGoogle |-> Zero, totalClicks |-> Zero,
     mer |-> Zero, contributionMargin |-> Zero, roasFB |-> Zero, roasGoogle |-> Zero,
     dayOfWeek |-> GetDay(current),
     weekOfMonth |-> getWeekOfMonth(current),
     monthDay |-> GetDate(current)]

\* the while loop: current.setDate(current.getDate() + 1) until current > maxDate
RECURSIVE GapsFrom(_, _, _, _)
GapsFrom(current, maxDate, labels, existingKeys) ==
    LET \* the records pushed in one iteration (the for loop over labels)
        Pushed(missing) == [i \in 1..Len(missing) |-> GapMetric(current, missing[i])]
    IN  IF current <= maxDate
        THEN Pushed(SelectSeq(labels,
                        LAMBDA label : Key(ToISODate(current), label) \notin existingKeys))
                \o GapsFrom(current + HoursPerDay, maxDate, labels, existingKeys)
        ELSE <<>>

fillMissingDays(metrics, labels) ==
    IF Len(metrics) = 0 THEN metrics
    ELSE LET dates == [i \in 1..Len(metrics) |-> metrics[i].date]
             minDate == CHOOSE x \in {dates[i] : i \in 1..Len(dates)} : \A i \in 1..Len(dates) : x <= dates[i]
             maxDate == CHOOSE x \in {dates[i] : i \in 1..Len(dates)} : \A i \in 1..Len(dates) : x >= dates[i]
             existingKeys == {Key(metrics[i].dateString, metrics[i].label) : i \in 1..Len(metrics)}
         IN  metrics \o GapsFrom(minDate, maxDate, labels, existingKeys)

-----------------------------------------------------------------------------
(* Array objects.  The accumulators are the variables historicalData,      *)
(* liveData, targets, events and errors.  An array of a returned           *)
(* HarmonizedData object is [same, items]: `same` names the accumulator    *)
(* whose array object it is ("none" for an array of its own), `items` its  *)
(* current contents.  A push onto an accumulator is seen through every     *)
(* array that is the same object; an assignment of a new array to the      *)
(* accumulator leaves the old object, with its contents, to its holders.   *)

NoCall == [op |-> "none"]
NoDataset == [none |-> TRUE]

Arr(same, items) == [same |-> same, items |-> items]

\* the held object after a call that pushed onto the named accumulator,
\* this[name].push(...): the object now has the contents `items`
HeldAfterPush(name, items) ==
    LET F(a) == IF a.same = name THEN Arr(name, items) ELSE a
    IN  /\ held' = IF held = NoDataset THEN held
                   ELSE [metrics |-> F(held.metrics),
                         targets |-> F(held.targets),
                         events |-> F(held.events),
                         sources |-> [i \in 1..Len(held.sources) |->
                                         [held.sources[i] EXCEPT !.data = F(@)]]]
        /\ later' = IF held = NoDataset THEN 0 ELSE later + 1

\* the held object after a call that assigned the named accumulators,
\* this[name] = <a new array>
HeldAfterAssign(names) ==
    LET F(a) == IF a.same \in names THEN Arr("none", a.items) ELSE a
    IN  /\ held' = IF held = NoDataset THEN held
                   ELSE [metrics |-> F(held.metrics),
                         targets |-> F(held.targets),
                         events |-> F(held.events),
                         sources |-> [i \in 1..Len(held.sources) |->
                                         [held.sources[i] EXCEPT !.data = F(@)]]]
        /\ later' = IF held = NoDataset THEN 0 ELSE later + 1

\* what a holder of the object reads
View(h) ==
    IF h = NoDataset THEN h
    ELSE [metrics |-> h.metrics.items,
          targets |-> h.targets.items,
          events |-> h.events.items,
          sources |-> [i \in 1..Len(h.sources) |->
                          [type |-> h.sources[i].type,
                           year |-> h.sources[i].year,
                           data |-> h.sources[i].data.items]]]

EmptyHarmonizer ==
    /\ historicalData = <<>>
    /\ liveData = <<>>
    /\ targets = <<>>
    /\ events = <<>>
    /\ errors = <<>>
    /\ held = NoDataset
    /\ later = 0
    /\ calls = 0
    /\ errorCalls = 0

HarmonizerVars ==
    <<historicalData, liveData, targets, events, errors, held, later, calls, errorCalls>>

-----------------------------------------------------------------------------
(* dataHarmonizer: class DataHarmonizer *)

\* the warning texts `${source}: ${errors} rows failed validation`
Warning(source, year, count) == [source |-> source, year |-> year, errors |-> count]

\* a variant of LogErrors without the guard errors > 0
LogErrorsAlways(count, warning) == errors' = Append(errors, warning)

\* if (errors > 0) this.errors.push(warning)
LogErrors(count, warning) ==
    errors' = IF count > 0 THEN Append(errors, warning) ELSE errors

\* the history of an add call that returns { success, errors }
Returned(op, success, count) ==
    /\ ret' = [op |-> op, success |-> success, errors |-> count]
    /\ calls' = calls + 1
    /\ errorCalls' = IF count > 0 THEN errorCalls + 1 ELSE errorCalls

AddHistoricalData(rawData, year) ==
    LET Store(parsed, metrics) ==
            /\ historicalData' = historicalData \o metrics
            /\ HeldAfterPush("historicalData", historicalData')
            /\ LogErrors(parsed.errors, Warning("Historical data", year, parsed.errors))
            /\ Returned("addHistoricalData", Len(parsed.valid), parsed.errors)
            /\ UNCHANGED <<tz, filters, input, liveData, targets, events>>
        Mapped(valid) == [i \in 1..Len(valid) |-> transformToMetrics(valid[i])]
        Parsed(parsed) ==
            Store(parsed,
                  Mapped(SelectSeq(parsed.valid,
                             LAMBDA row : GetFullYear(Value(DateParse(row.Date))) = year)))
    IN  Parsed(safeParseRows(rawData, Len(rawData)))

AddLiveDataEuropean(rawData) ==
    LET Store(transformed) ==
            /\ liveData' = [i \in 1..Len(transformed.data) |-> toCompatibleMetrics(transformed.data[i])]
            /\ HeldAfterAssign({"liveData"})
            /\ LogErrors(transformed.errors, Warning("Live data", 0, transformed.errors))
            /\ Returned("addLiveDataEuropean", Len(transformed.data), transformed.errors)
            /\ UNCHANGED <<tz, filters, input, historicalData, targets, events>>
    IN  Store(transformSheetData(rawData))

AddLiveData(rawData) ==
    LET Store(parsed) ==
            /\ liveData' = [i \in 1..Len(parsed.valid) |-> transformToMetrics(parsed.valid[i])]
            /\ HeldAfterAssign({"liveData"})
            /\ LogErrors(parsed.errors, Warning("Live data", 0, parsed.errors))
            /\ Returned("addLiveData", Len(parsed.valid), parsed.errors)
            /\ UNCHANGED <<tz, filters, input, historicalData, targets, events>>
    IN  Store(safeParseRows(rawData, Len(rawData)))

\* a variant of addTargets that pushes onto this.targets instead of replacing it
AddTargetsPushing(rawData) ==
    LET Store(parsed) ==
            /\ targets' = targets \o parsed.targets
            /\ HeldAfterPush("targets", targets')
            /\ LogErrors(parsed.errors, Warning("Targets", 0, parsed.errors))
            /\ Returned("addTargets", Len(parsed.targets), parsed.errors)
            /\ UNCHANGED <<tz, filters, input, historicalData, liveData, events>>
    IN  Store(ParseTargets(rawData, Len(rawData)))

AddTargets(rawData) ==
    LET Store(parsed) ==
            /\ targets' = parsed.targets
            /\ HeldAfterAssign({"targets"})
            /\ LogErrors(parsed.errors, Warning("Targets", 0, parsed.errors))
            /\ Returned("addTargets", Len(parsed.targets), parsed.errors)
            /\ UNCHANGED <<tz, filters, input, historicalData, liveData, events>>
    IN  Store(ParseTargets(rawData, Len(rawData)))

AddEvents(rawData) ==
    LET Store(parsed) ==
            /\ events' = parsed.events
            /\ HeldAfterAssign({"events"})
            /\ LogErrors(parsed.errors, Warning("Events", 0, parsed.errors))
            /\ Returned("addEvents", Len(parsed.events), parsed.errors)
            /\ UNCHANGED <<tz, filters, input, historicalData, liveData, targets>>
    IN  Store(ParseEvents(rawData, Len(rawData)))

\* the sources metadata built by harmonize
Sources ==
    LET Historical(historicalYears) == [i \in 1..Len(historicalYears) |->
            [type |-> "historical",
             year |-> historicalYears[i],
             data |-> Arr("none", SelectSeq(historicalData,
                              LAMBDA m : GetFullYear(m.date) = historicalYears[i]))]]
        WithLive(historical) ==
            IF Len(liveData) > 0
            THEN Append(historical, [type |-> "live",
                                     year |-> GetFullYear(liveData[1].date),
                                     data |-> Arr("liveData", liveData)])
            ELSE historical
    IN  WithLive(Historical(Distinct(
            [i \in 1..Len(historicalData) |-> GetFullYear(historicalData[i].date)])))

\* a variant of the returned object that keeps one record per dateString and
\* label, the live one where both sources have it
HarmonizedDataDeduplicated(fillMissing) ==
    LET InLive(m) == \E i \in 1..Len(liveData) :
                        Key(liveData[i].dateString, liveData[i].label) = Key(m.dateString, m.label)
        Filled(combined) ==
            IF fillMissing /\ Len(combined) > 0
            THEN fillMissingDays(combined,
                     Distinct([i \in 1..Len(combined) |-> combined[i].label]))
            ELSE combined
    IN  [metrics |-> Arr("none", SortByDate(Filled(
                        SelectSeq(historicalData, LAMBDA m : ~InLive(m)) \o liveData))),
         targets |-> Arr("targets", targets),
         events |-> Arr("events", events),
         sources |-> Sources]

\* the object harmonize returns (lastUpdated, the wall clock, is left out)
HarmonizedData(fillMissing) ==
    LET combined == historicalData \o liveData
        labels == Distinct([i \in 1..Len(combined) |-> combined[i].label])
        allMetrics == IF fillMissing /\ Len(combined) > 0
                      THEN fillMissingDays(combined, labels)
                      ELSE combined
    IN  [metrics |-> Arr("none", SortByDate(allMetrics)),
         targets |-> Arr("targets", targets),
         events |-> Arr("events", events),
         sources |-> Sources]

\* a variant of harmonize that sorts this.liveData in place
HarmonizeSortingInPlace(fillMissing, keep) ==
    LET Return(harmonized) ==
            /\ liveData' = SortByDate(liveData)
            /\ ret' = [op |-> "harmonize", fillMissing |-> fillMissing,
                        value |-> View(harmonized)]
            /\ IF keep
               THEN held' = harmonized /\ later' = 0
               ELSE HeldAfterPush("liveData", liveData')
            /\ UNCHANGED <<tz, filters, input, historicalData, targets, events, errors,
                           calls, errorCalls>>
    IN  Return(HarmonizedData(fillMissing))

\* harmonize(fillMissing); the caller keeps the returned object or drops it
Harmonize(fillMissing, keep) ==
    LET Return(harmonized) ==
            /\ ret' = [op |-> "harmonize", fillMissing |-> fillMissing,
                        value |-> View(harmonized)]
            /\ IF keep
               THEN held' = harmonized /\ later' = 0
               ELSE HeldAfterAssign({})
            /\ UNCHANGED <<tz, filters, input, historicalData, liveData, targets, events, errors,
                           calls, errorCalls>>
    IN  Return(HarmonizedData(fillMissing))

getErrors == errors

Clear ==
    /\ historicalData' = <<>>
    /\ liveData' = <<>>
    /\ targets' = <<>>
    /\ events' = <<>>
    /\ errors' = <<>>
    /\ calls' = 0
    /\ errorCalls' = 0
    /\ HeldAfterAssign({"historicalData", "liveData", "targets", "events"})
    /\ ret' = [op |-> "clear"]
    /\ UNCHANGED <<tz, filters, input>>

-----------------------------------------------------------------------------
(* Rows handed to the harmonizer.  The days lie around a turn of the year  *)
(* (30 December 2025 .. 2 January 2026); the labels are the two default    *)
(* labels.                                                                 *)

SheetRow(date, label, revWeb, orders, spendFB) ==
    [Date |-> date, Label |-> label,
     Rev_Web |-> revWeb, Rev_App |-> Undefined,
     Orders |-> orders, Orders_App |-> Undefined,
     Conv_FB |-> <<"3">>, Conv_Google |-> Undefined, Conversions_Google |-> <<"1">>,
     Spend_FB |-> spendFB, Spend_Google |-> <<>>]

\* the sheet rows, by name
Sheet ==
    [NL31 |->
        SheetRow(DateText("d-M-yyyy", 2025, 12, 31), "FMH.NL",
            <<"1", ".", "6", "3", "3", ",", "5", "0">>, <<"1", "2">>, <<"1", "0", "0">>),
     BE02 |->
        SheetRow(DateText("d/M/yyyy", 2026, 1, 2), "FMH.BE",
            <<"2", "0", "0">>, <<"0">>, <<>>),
     NoLabel30 |->
        SheetRow(DateText("yyyy-MM-dd", 2025, 12, 30), "", <<"5">>, <<"1">>, <<"1">>),
     Empty |->
        SheetRow(DateText("", 0, 0, 0), "", <<>>, <<>>, <<>>),
     JunkDate |->
        SheetRow(JunkDate, "FMH.NL", <<"7">>, <<"1">>, <<"1">>),
     NoDate |->
        SheetRow(UndefinedDate, "FMH.BE", <<"7">>, <<"1">>, <<"1">>),
     Feb31 |->
        SheetRow(DateText("d-M-yyyy", 2026, 2, 31), "FMH.NL", <<"7">>, <<"1">>, <<"1">>)]

JsonRow(date, label, revWeb, orders, spendFB) ==
    [Date |-> date, Label |-> label,
     Rev_Web |-> revWeb, Rev_App |-> NaN, Orders |-> orders,
     Spend_FB |-> spendFB, Spend_Google |-> Num(0),
     Clicks_FB |-> Num(4), Clicks_Google |-> NaN]

\* the JSON rows, by name
Json ==
    [NL31 |->
        JsonRow(DateText("yyyy-MM-dd", 2025, 12, 31), "FMH.NL", Num(50), Num(2), Num(10)),
     BE01 |->
        JsonRow(DateText("yyyy-MM-ddT00:00", 2026, 1, 1), "FMH.BE", Num(80), Num(4), Num(0)),
     NL30 |->
        JsonRow(DateText("yyyy-MM-dd", 2025, 12, 30), "FMH.NL", Num(0), Num(0), Num(5)),
     JunkDate |->
        JsonRow(JunkDate, "FMH.NL", Num(1), Num(1), Num(1)),
     Negative |->
        JsonRow(DateText("yyyy-MM-dd", 2025, 12, 31), "FMH.BE", Num(-1), Num(1), Num(1)),
     NoLabel |->
        JsonRow(DateText("yyyy-MM-dd", 2025, 12, 31), MissingLabel, Num(1), Num(1), Num(1))]

NoTargetCells ==
    [Month |-> Undefined, month |-> Undefined, Label |-> "", label |-> "",
     Rev_target |-> Undefined, Revenue_Target |-> Undefined,
     revenue_target |-> Undefined, RevenueTarget |-> Undefined,
     Orders_Target |-> Undefined, orders_target |-> Undefined, OrdersTarget |-> Undefined,
     MER_Target |-> Undefined, mer_target |-> Undefined, MERTarget |-> Undefined,
     Ad_budget |-> Undefined, ad_budget |-> Undefined]

\* the rows of a Targets tab, by name
TargetRow ==
    [Jan |->
        [NoTargetCells EXCEPT !.Month = <<"1", "-", "2", "0", "2", "6">>,
            !.Label = "FMH.NL",
            !.Rev_target = <<"1", "0", ".", "0", "0", "0">>,
            !.MER_Target = <<"2", "0">>],
     DecSlash |->
        [NoTargetCells EXCEPT !.month = <<"1", "2", "/", "2", "0", "2", "5">>,
            !.revenue_target = <<"5", "0", "0">>],
     Canonical |->
        [NoTargetCells EXCEPT !.Month = <<"2", "0", "2", "6", "-", "0", "1">>,
            !.label = "FMH.BE",
            !.RevenueTarget = <<"9">>],
     Words |->
        [NoTargetCells EXCEPT !.Month = <<"J", "a", "n", " ", "2", "0", "2", "6">>,
            !.Label = "FMH.NL",
            !.Revenue_Target = <<"7">>],
     NoMonth |->
        [NoTargetCells EXCEPT !.Month = <<>>, !.Label = "FMH.NL"]]

TargetRows == {TargetRow.Jan, TargetRow.DecSlash, TargetRow.Canonical, TargetRow.Words, TargetRow.NoMonth}

NoEventCells ==
    [Date |-> UndefinedDate, date |-> UndefinedDate, Title |-> "", title |-> "",
     Description |-> "", description |-> "", Type |-> "", type |-> "",
     Label |-> "", label |-> ""]

\* the rows of an Events tab, by name
EventRow ==
    [Sale |->
        [NoEventCells EXCEPT !.Date = DateText("d-M-yyyy", 2025, 12, 31),
            !.Title = "Sale", !.Type = "Marketing"],
     NewYear |->
        [NoEventCells EXCEPT !.date = DateText("yyyy-MM-dd", 2026, 1, 1),
            !.title = "New Year", !.type = "holiday",
            !.label = "FMH.NL"],
     JunkDate |->
        [NoEventCells EXCEPT !.Date = JunkDate, !.Title = "Outage"],
     NoDate |->
        [NoEventCells EXCEPT !.Title = "Note"]]

\* the batches the calls of a harmonizer are given, and the years of addHistoricalData
Batches ==
    [Sheet |-> {<<Sheet.NL31>>,
                <<Sheet.BE02, Sheet.JunkDate, Sheet.Empty, Sheet.NL31>>},
     Json |-> {<<Json.NL31>>,
               <<Json.BE01, Json.JunkDate, Json.NL30>>},
     Years |-> {2025, 2026},
     Targets |-> {<<TargetRow.Jan>>,
                  <<TargetRow.NoMonth, TargetRow.DecSlash>>},
     Events |-> {<<EventRow.Sale>>,
                 <<EventRow.JunkDate, EventRow.NoDate, EventRow.NewYear>>}]

-----------------------------------------------------------------------------
(* The harmonizer as a system: a DataHarmonizer is constructed in a        *)
(* process with time-zone offset tz and then receives any sequence of its  *)
(* public calls.                                                           *)

Init ==
    /\ tz \in TZOffsets
    /\ EmptyHarmonizer
    /\ filters = Null
    /\ input = [none |-> TRUE]
    /\ ret = NoCall

Room == calls < MaxCalls

\* every returned dataset is dropped by its caller
Next ==
    \/ \E rawData \in Batches.Json, year \in Batches.Years : Room /\ AddHistoricalData(rawData, year)
    \/ \E rawData \in Batches.Sheet : Room /\ AddLiveDataEuropean(rawData)
    \/ \E rawData \in Batches.Json : Room /\ AddLiveData(rawData)
    \/ \E rawData \in Batches.Targets : Room /\ AddTargets(rawData)
    \/ \E rawData \in Batches.Events : Room /\ AddEvents(rawData)
    \/ \E fillMissing \in BOOLEAN : Harmonize(fillMissing, FALSE)
    \/ Clear

Spec == Init /\ [][Next]_vars

\* a caller keeps one returned dataset while the harmonizer receives later calls
Watched == held = NoDataset \/ later < MaxLater

NextHeld ==
    \/ \E rawData \in Batches.Json, year \in Batches.Years :
          Room /\ Watched /\ AddHistoricalData(rawData, year)
    \/ \E rawData \in Batches.Sheet : Room /\ Watched /\ AddLiveDataEuropean(rawData)
    \/ \E rawData \in Batches.Json : Room /\ Watched /\ AddLiveData(rawData)
    \/ \E rawData \in Batches.Targets : Room /\ Watched /\ AddTargets(rawData)
    \/ \E rawData \in Batches.Events : Room /\ Watched /\ AddEvents(rawData)
    \/ \E fillMissing \in BOOLEAN : Watched /\ Harmonize(fillMissing, held = NoDataset)
    \/ Watched /\ Clear

SpecHeld == Init /\ [][NextHeld]_vars

-----------------------------------------------------------------------------
(* A sheet handed to addLiveDataEuropean, and a Targets tab handed to      *)
(* addTargets, by themselves: one call on a fresh harmonizer with any      *)
(* batch of at most MaxRows of the rows above.                             *)

SeqsUpTo(S, n) == UNION {[1..k -> S] : k \in 0..n}

InitSheet ==
    /\ tz \in TZOffsets
    /\ EmptyHarmonizer
    /\ filters = Null
    /\ input \in SeqsUpTo({Sheet.NL31, Sheet.BE02, Sheet.NoLabel30, Sheet.Empty,
                            Sheet.JunkDate, Sheet.NoDate, Sheet.Feb31}, MaxRows)
    /\ ret = NoCall

SpecSheet == InitSheet /\ [][ret = NoCall /\ AddLiveDataEuropean(input)]_vars

InitTargets ==
    /\ tz \in TZOffsets
    /\ EmptyHarmonizer
    /\ filters = Null
    /\ input \in SeqsUpTo(TargetRows, MaxRows)
    /\ ret = NoCall

SpecTargets == InitTargets /\ [][ret = NoCall /\ AddTargets(input)]_vars

-----------------------------------------------------------------------------
(* Date alignment as a system: one call of alignDateByDayOfWeek on a       *)
(* current date (a local midnight) drawn from FirstYear .. FirstYear +     *)
(* YearSpan - 1.                                                           *)

AlignDays ==
    DaysFromCivil(FirstYear, 1, 1) .. (DaysFromCivil(FirstYear + YearSpan, 1, 1) - 1)

InitAlign ==
    /\ tz \in TZOffsets
    /\ \E day \in AlignDays : input = day * HoursPerDay - tz
    /\ ret = NoCall
    /\ EmptyHarmonizer
    /\ filters = Null

CallAlign ==
    /\ ret = NoCall
    /\ ret' = [op |-> "alignDateByDayOfWeek", value |-> alignDateByDayOfWeek(input)]
    /\ UNCHANGED <<tz, filters, input, HarmonizerVars>>

SpecAlign == InitAlign /\ [][CallAlign]_vars

-----------------------------------------------------------------------------
(* useFashionData.ts: the dashboard loads the Targets tab into a fresh     *)
(* harmonizer, harmonizes without gap filling and looks the target of the  *)
(* month of filters.dateRange.end up in the result.                        *)

\* String(n) for an integer n >= 0
RECURSIVE DigitText(_)
DigitText(n) ==
    LET DigitChar(v) == CHOOSE c \in Digits : DigitValue(c) = v
    IN  IF n < 10 THEN <<DigitChar(n)>> ELSE DigitText(n \div 10) \o <<DigitChar(n % 10)>>

\* reduce((sum, t) => sum + t[field], 0)
RECURSIVE SumOf(_, _)
SumOf(seq, field) ==
    IF seq = <<>> THEN Zero
    ELSE RAdd(SumOf(SubSeq(seq, 1, Len(seq) - 1), field), seq[Len(seq)][field])

\* currentTarget of useFilteredData: the combined target of the month of
\* targetDate, Null when no stored target has that month key
currentTarget(harmonizedData, targetDate) ==
    LET Combined(monthStr, relevantTargets) ==
            IF Len(harmonizedData.targets) > 0 /\ Len(relevantTargets) > 0
            THEN Some([month |-> monthStr,
                       label |-> "Combined",
                       revenueTarget |-> SumOf(relevantTargets, "revenueTarget"),
                       ordersTarget |-> SumOf(relevantTargets, "ordersTarget"),
                       merTarget |-> relevantTargets[1].merTarget])
            ELSE Null
        Lookup(monthStr) ==
            Combined(monthStr,
                     SelectSeq(harmonizedData.targets, LAMBDA t : t.month = monthStr))
        \* String.prototype.padStart(2, '0')
        Padded(text) == IF Len(text) < 2 THEN <<"0">> \o text ELSE text
    IN  Lookup(DigitText(GetFullYear(targetDate)) \o <<"-">>
                  \o Padded(DigitText(GetMonth(targetDate) + 1)))

\* the tab: one of the rows below, alone or followed by one of TargetRows
InitDashboard ==
    /\ tz \in TZOffsets
    /\ EmptyHarmonizer
    /\ filters = Null
    /\ LET \* rows of a Targets tab that differ in the month cell (m-yyyy, mm-yyyy,
           \* m/yyyy, mm/yyyy and the key itself), in the revenue header and in the
           \* revenue cell
           RevenueTargetRows ==
               {[[NoTargetCells EXCEPT !.Month = m] EXCEPT ![h] = rev] :
                   m \in {<<"1", "-", "2", "0", "2", "6">>,
                          <<"0", "1", "-", "2", "0", "2", "6">>,
                          <<"2", "/", "2", "0", "2", "6">>,
                          <<"1", "2", "/", "2", "0", "2", "5">>,
                          <<"2", "0", "2", "6", "-", "0", "2">>},
                   h \in {"Rev_target", "Revenue_Target", "revenue_target", "RevenueTarget"},
                   rev \in {<<"1", "0", ".", "0", "0", "0">>, <<"7", "5", "0">>}}
           \* rows of January 2026 that differ in the efficiency-target cell: none,
           \* percentages, fractions with a comma, fractions with a period, the bounds
           \* 0, 1 and 100, and a percentage above 100
           MERTargetRows ==
               {[NoTargetCells EXCEPT !.month = <<"1", "-", "2", "0", "2", "6">>, !.Rev_target = <<"9">>]}
                 \cup {[[NoTargetCells EXCEPT !.month = <<"1", "-", "2", "0", "2", "6">>] EXCEPT ![h] = mer] :
                          h \in {"MER_Target", "mer_target", "MERTarget"},
                          mer \in {<<"2", "0">>, <<"1", "2", ",", "5">>, <<"1", "0", "0">>,
                                   <<"0", ",", "2">>, <<"0", ",", "2", "5">>,
                                   <<"0", ".", "2", "0">>, <<"0", ".", "5">>,
                                   <<"0">>, <<"1">>, <<"1", "5", "0">>}}
       IN  \E r \in RevenueTargetRows \cup MERTargetRows :
              input \in {<<r>>} \cup {<<r, s>> : s \in TargetRows}
    /\ ret = NoCall

LoadTargets == ret = NoCall /\ AddTargets(input)

HarmonizeLoaded == ret.op = "addTargets" /\ Harmonize(FALSE, FALSE)

LookupTarget ==
    /\ ret.op = "harmonize"
    /\ \E y \in {2025, 2026}, m \in {0, 1, 11} :
          \E end \in {NewDate(y, m, 1), NewDate(y, m + 1, 1) - 1} :
              ret' = [op |-> "currentTarget", end |-> end,
                      value |-> currentTarget(ret.value, end)]
    /\ UNCHANGED <<tz, filters, input, HarmonizerVars>>

SpecDashboard == InitDashboard /\ [][LoadTargets \/ HarmonizeLoaded \/ LookupTarget]_vars

-----------------------------------------------------------------------------
(* The calendar as a system: a fresh harmonizer receives live data of one  *)
(* label for a day of FirstYear .. FirstYear + YearSpan - 1 (input) and    *)
(* the day two days later, as sheet rows or as JSON rows, or an event of   *)
(* that day, and harmonizes.                                               *)

InitCalendar ==
    /\ tz \in TZOffsets
    /\ EmptyHarmonizer
    /\ filters = Null
    /\ input \in AlignDays
    /\ ret = NoCall

LoadSheetDays ==
    LET OfDay(c) == SheetRow(DateText("d-M-yyyy", c.y, c.m, c.d), "FMH.NL",
                             <<"7">>, <<"1">>, <<"1">>)
    IN  /\ ret = NoCall
        /\ AddLiveDataEuropean(<<OfDay(CivilFromDays(input)), OfDay(CivilFromDays(input + 2))>>)

LoadJsonDays ==
    LET OfDay(c) == JsonRow(DateText("yyyy-MM-dd", c.y, c.m, c.d), "FMH.NL",
                            Num(7), Num(1), Num(1))
    IN  /\ ret = NoCall
        /\ AddLiveData(<<OfDay(CivilFromDays(input)), OfDay(CivilFromDays(input + 2))>>)

LoadEventDay ==
    LET OfDay(c) == [NoEventCells EXCEPT !.Date = DateText("d-M-yyyy", c.y, c.m, c.d),
                                         !.Title = "Sale"]
    IN  /\ ret = NoCall
        /\ AddEvents(<<OfDay(CivilFromDays(input))>>)

HarmonizeDays ==
    /\ ret.op \in {"addLiveDataEuropean", "addLiveData", "addEvents"}
    /\ \E fillMissing \in BOOLEAN : Harmonize(fillMissing, FALSE)

SpecCalendar ==
    InitCalendar /\ [][LoadSheetDays \/ LoadJsonDays \/ LoadEventDay \/ HarmonizeDays]_vars

-----------------------------------------------------------------------------
(* analytics.ts: year-over-year comparison.  Of a DailyMetrics record the  *)
(* comparison reads date, totalRevenue, orders and totalSpend.             *)

\* a variant of FindPrevious whose exact-date match ignores the year
FindPreviousAnyYear(current, historicalMetrics, alignByDayOfWeek) ==
    LET First(hits) ==
            IF hits = {} THEN Null
            ELSE Some(historicalMetrics[CHOOSE i \in hits : \A j \in hits : i <= j])
    IN  First({i \in 1..Len(historicalMetrics) :
                  /\ GetMonth(historicalMetrics[i].date) = GetMonth(current.date)
                  /\ GetDate(historicalMetrics[i].date) = GetDate(current.date)})

\* historicalMetrics.find(...) of either mode: the first record on the wanted
\* day, Null for undefined
FindPrevious(current, historicalMetrics, alignByDayOfWeek) ==
    LET First(hits) ==
            IF hits = {} THEN Null
            ELSE Some(historicalMetrics[CHOOSE i \in hits : \A j \in hits : i <= j])
        OnDay(year, month, day) ==
            First({i \in 1..Len(historicalMetrics) :
                      /\ GetFullYear(historicalMetrics[i].date) = year
                      /\ GetMonth(historicalMetrics[i].date) = month
                      /\ GetDate(historicalMetrics[i].date) = day})
        OnDayOf(date) == OnDay(GetFullYear(date), GetMonth(date), GetDate(date))
    IN  IF alignByDayOfWeek
        THEN OnDayOf(alignDateByDayOfWeek(current.date))
        ELSE OnDay(GetFullYear(current.date) - 1, GetMonth(current.date),
                   GetDate(current.date))

\* a variant of VarianceOf that takes the current revenue for the previous
\* revenue of a record without counterpart
VarianceOfSelfBaseline(current, previous) ==
    LET Entry(previousRevenue, revenueVariance) ==
            [date |-> current.date,
             revenueVariance |-> revenueVariance,
             revenueVariancePercent |->
                 IF RPositive(previousRevenue)
                 THEN RMul(RDiv(revenueVariance, previousRevenue), Num(100))
                 ELSE Zero,
             ordersVariance |->
                 RSub(current.orders, IF previous = Null THEN Zero ELSE Value(previous).orders),
             spendVariance |->
                 RSub(current.totalSpend,
                      IF previous = Null THEN Zero ELSE Value(previous).totalSpend),
             currentRevenue |-> current.totalRevenue,
             previousRevenue |-> previousRevenue]
        OfPrevious(previousRevenue) ==
            Entry(previousRevenue, RSub(current.totalRevenue, previousRevenue))
    IN  OfPrevious(IF previous = Null THEN current.totalRevenue
                   ELSE Value(previous).totalRevenue)

\* the entry of `variance` for one current record; previous?.x || 0 is 0 for
\* a missing record
VarianceOf(current, previous) ==
    LET Entry(previousRevenue, revenueVariance) ==
            [date |-> current.date,
             revenueVariance |-> revenueVariance,
             revenueVariancePercent |->
                 IF RPositive(previousRevenue)
                 THEN RMul(RDiv(revenueVariance, previousRevenue), Num(100))
                 ELSE Zero,
             ordersVariance |->
                 RSub(current.orders, IF previous = Null THEN Zero ELSE Value(previous).orders),
             spendVariance |->
                 RSub(current.totalSpend,
                      IF previous = Null THEN Zero ELSE Value(previous).totalSpend),
             currentRevenue |-> current.totalRevenue,
             previousRevenue |-> previousRevenue]
        OfPrevious(previousRevenue) ==
            Entry(previousRevenue, RSub(current.totalRevenue, previousRevenue))
    IN  OfPrevious(IF previous = Null THEN Zero ELSE Value(previous).totalRevenue)

calculateYoYComparison(currentMetrics, historicalMetrics, alignByDayOfWeek) ==
    [currentPeriod |-> currentMetrics,
     previousPeriod |-> historicalMetrics,
     variance |-> [i \in 1..Len(currentMetrics) |->
                      VarianceOf(currentMetrics[i],
                                 FindPrevious(currentMetrics[i], historicalMetrics,
                                              alignByDayOfWeek))]]

(* The comparison as a system: one call on current records of 2024 and at  *)
(* most MaxReference reference records, all dated at local midnight.       *)

MaxReference == 2

InitYoY ==
    /\ tz \in TZOffsets
    /\ EmptyHarmonizer
    /\ filters = Null
    /\ LET \* current records: 29 February and 1 March 2024, with and without revenue
           CurrentMetrics ==
               {[date |-> NewDate(2024, 1, 29), totalRevenue |-> Num(120), orders |-> Num(6),
                 totalSpend |-> Num(30)],
                [date |-> NewDate(2024, 2, 1), totalRevenue |-> Num(90), orders |-> Num(5),
                 totalSpend |-> Num(20)],
                [date |-> NewDate(2024, 2, 1), totalRevenue |-> Zero, orders |-> Zero,
                 totalSpend |-> Num(20)]}
           \* reference records: the same day one and two years before and in the same
           \* year, the aligned weekday (Friday 3 March 2023), and the day before
           \* 1 March 2023; each with orders of its own
           ReferenceMetrics ==
               {[date |-> NewDate(2023, 2, 1), totalRevenue |-> Num(60), orders |-> Num(1),
                 totalSpend |-> Num(10)],
                [date |-> NewDate(2023, 2, 1), totalRevenue |-> Zero, orders |-> Num(2),
                 totalSpend |-> Num(11)],
                [date |-> NewDate(2023, 2, 3), totalRevenue |-> Num(45), orders |-> Num(3),
                 totalSpend |-> Num(12)],
                [date |-> NewDate(2022, 2, 1), totalRevenue |-> Num(70), orders |-> Num(4),
                 totalSpend |-> Num(13)],
                [date |-> NewDate(2024, 2, 1), totalRevenue |-> Num(80), orders |-> Num(7),
                 totalSpend |-> Num(14)],
                [date |-> NewDate(2023, 1, 28), totalRevenue |-> Num(50), orders |-> Num(8),
                 totalSpend |-> Num(15)]}
       IN  \E current \in CurrentMetrics,
              historical \in SeqsUpTo(ReferenceMetrics, MaxReference),
              alignByDayOfWeek \in BOOLEAN :
              input = [currentMetrics |-> <<current>>,
                       historicalMetrics |-> historical,
                       alignByDayOfWeek |-> alignByDayOfWeek]
    /\ ret = NoCall

CallYoY ==
    /\ ret = NoCall
    /\ ret' = [op |-> "calculateYoYComparison",
               value |-> calculateYoYComparison(input.currentMetrics,
                             input.historicalMetrics, input.alignByDayOfWeek)]
    /\ UNCHANGED <<tz, filters, input, HarmonizerVars>>

SpecYoY == InitYoY /\ [][CallYoY]_vars

(* analytics.ts: the chart series of a comparison.  The comparison is      *)
(* Some(comparison) or Null (undefined), and so are the fields of a point  *)
(* that may be undefined; the date texts of a point are left out.          *)

formatChartData(metrics, yoyComparison) ==
    [index \in 1..Len(metrics) |->
        [revenue |-> metrics[index].totalRevenue,
         revenueYoY |-> IF /\ yoyComparison # Null
                           /\ index <= Len(Value(yoyComparison).previousPeriod)
                        THEN Some(Value(yoyComparison).previousPeriod[index].totalRevenue)
                        ELSE Null,
         spend |-> metrics[index].totalSpend,
         orders |-> metrics[index].orders,
         variance |-> IF /\ yoyComparison # Null
                         /\ index <= Len(Value(yoyComparison).variance)
                      THEN Some(Value(yoyComparison).variance[index].revenueVariance)
                      ELSE Null]]

\* CommandCenter: chartData = formatChartData(aggregatedMetrics, yoyComparison),
\* with the comparison just calculated or, the comparison switched off, none
CallChart ==
    /\ ret.op = "calculateYoYComparison"
    /\ \E yoyComparison \in {Null, Some(ret.value)} :
          ret' = [op |-> "formatChartData",
                  yoyComparison |-> yoyComparison,
                  value |-> formatChartData(input.currentMetrics, yoyComparison)]
    /\ UNCHANGED <<tz, filters, input, HarmonizerVars>>

SpecChart == InitYoY /\ [][CallYoY \/ CallChart]_vars

-----------------------------------------------------------------------------
(* IEEE-754 double arithmetic, for the sums and ratios of analytics.ts     *)
(* whose rounding shows in the result.  A natural number is the sequence   *)
(* of its digits to the base 2^15, lowest first, without leading zeros     *)
(* (<<>> is 0).  A double is [neg, m, e] and stands for                    *)
(* (-1)^neg * m * 2^e, with m odd and below 2^53, or m = <<>> and e = 0    *)
(* for zero.  Infinities, NaN, subnormal numbers and the sign of zero are  *)
(* left out.                                                               *)

\* the natural number of a sequence of digits: without its leading zeros
Natural(digits) ==
    SubSeq(digits, 1, CHOOSE k \in 0..Len(digits) :
                          /\ k = 0 \/ digits[k] # 0
                          /\ \A i \in (k + 1)..Len(digits) : digits[i] = 0)

\* a + b + carry
RECURSIVE NatAdd(_, _, _)
NatAdd(a, b, carry) ==
    IF a = <<>> /\ b = <<>> THEN (IF carry = 0 THEN <<>> ELSE <<carry>>)
    ELSE LET Digit(sum) ==
                 <<sum % 2^15>> \o NatAdd(IF a = <<>> THEN a ELSE Tail(a),
                                          IF b = <<>> THEN b ELSE Tail(b), sum \div 2^15)
         IN  Digit((IF a = <<>> THEN 0 ELSE a[1]) + (IF b = <<>> THEN 0 ELSE b[1]) + carry)

\* a < b
NatLess(a, b) ==
    \/ Len(a) < Len(b)
    \/ /\ Len(a) = Len(b)
       /\ \E i \in 1..Len(a) :
             /\ a[i] < b[i]
             /\ \A j \in (i + 1)..Len(a) : a[j] = b[j]

\* a - b for a >= b: a plus the complement of b plus 1, without the carry
NatSub(a, b) ==
    Natural(SubSeq(NatAdd(a, [i \in 1..Len(a) |->
                             2^15 - 1 - (IF i <= Len(b) THEN b[i] ELSE 0)], 1),
               1, Len(a)))

\* a * digit + carry
RECURSIVE NatScale(_, _, _)
NatScale(a, digit, carry) ==
    IF a = <<>> \/ digit = 0 THEN (IF carry = 0 THEN <<>> ELSE <<carry>>)
    ELSE LET Digit(product) ==
                 <<product % 2^15>> \o NatScale(Tail(a), digit, product \div 2^15)
         IN  Digit(a[1] * digit + carry)

\* a * b
RECURSIVE NatMul(_, _)
NatMul(a, b) ==
    IF a = <<>> \/ b = <<>> THEN <<>>
    ELSE LET Shifted(rest) == IF rest = <<>> THEN rest ELSE <<0>> \o rest
         IN  NatAdd(NatScale(a, b[1], 0), Shifted(NatMul(a, Tail(b))), 0)

\* a * 2^k for k >= 0, the integer part of a / 2^-k for k < 0
Shift(a, k) ==
    LET At(x, i) == IF i \in 1..Len(x) THEN x[i] ELSE 0
        Left(s) ==
            Natural([i \in 1..(k \div 15) |-> 0]
                  \o [i \in 1..(Len(a) + 1) |->
                         (At(a, i) % 2^(15 - s)) * 2^s + At(a, i - 1) \div 2^(15 - s)])
        Right(x, s) ==
            Natural([i \in 1..Len(x) |-> x[i] \div 2^s + (At(x, i + 1) % 2^s) * 2^(15 - s)])
    IN  IF k >= 0 THEN Left(k % 15)
        ELSE Right(SubSeq(a, (-k) \div 15 + 1, Len(a)), (-k) % 15)

\* the number of binary digits of a
BitLen(a) ==
    IF a = <<>> THEN 0
    ELSE 15 * (Len(a) - 1) + (CHOOSE k \in 1..15 : a[Len(a)] \in 2^(k - 1)..(2^k - 1))

\* [q, r]: quotient and remainder of n by d, where the highest digit of d is
\* 2^14 or more: long division, each digit of the quotient estimated from
\* the two highest digits of the remainder and at most 2 too large
RECURSIVE NatDivMod(_, _)
NatDivMod(n, d) ==
    IF n = <<>> THEN [q |-> <<>>, r |-> <<>>]
    ELSE LET Found(q, r, digit) ==
                 [q |-> Natural(<<digit>> \o q), r |-> NatSub(r, NatScale(d, digit, 0))]
             Estimated(q, r, estimate) ==
                 Found(q, r, CHOOSE c \in (IF estimate > 2 THEN estimate - 2 ELSE 0)..estimate :
                                 /\ ~NatLess(r, NatScale(d, c, 0))
                                 /\ c = estimate \/ NatLess(r, NatScale(d, c + 1, 0)))
             Top(r, i) == IF i <= Len(r) THEN r[i] ELSE 0
             Step(q, r) ==
                 Estimated(q, r,
                     IF (Top(r, Len(d) + 1) * 2^15 + Top(r, Len(d))) \div d[Len(d)] < 2^15
                     THEN (Top(r, Len(d) + 1) * 2^15 + Top(r, Len(d))) \div d[Len(d)]
                     ELSE 2^15 - 1)
             After(higher) == Step(higher.q, Natural(<<n[1]>> \o higher.r))
         IN  After(NatDivMod(Tail(n), d))

FZero == [neg |-> FALSE, m |-> <<>>, e |-> 0]

\* a > 0
FPositive(a) == a.m # <<>> /\ ~a.neg

\* the number of zero binary digits at the low end of x, for x # 0
LowZeros(x) ==
    LET In(i) == 15 * (i - 1) + (CHOOSE z \in 0..14 : x[i] % 2^(z + 1) = 2^z)
    IN  In(CHOOSE i \in 1..Len(x) : x[i] # 0 /\ \A j \in 1..(i - 1) : x[j] = 0)

\* round to nearest, ties to even: the double nearest to
\* (-1)^neg * (m + s) * 2^e for x = [neg, m, e, sticky], where 0 <= s < 1 and
\* s > 0 iff sticky (then m has more than 53 binary digits); the result has
\* m odd
Round(x) ==
    LET Nearest(cut, kept, half) ==
            [neg |-> x.neg,
             m |-> IF /\ kept[1] % 2 = 1
                      /\ \/ x.sticky
                         \/ LowZeros(x.m) < cut - 1
                         \/ half[1] % 2 = 1
                   THEN NatAdd(half, <<1>>, 0)
                   ELSE half,
             e |-> x.e + cut]
        Halved(cut, kept) == Nearest(cut, kept, Shift(kept, -1))
        CutAt(cut) == Halved(cut, Shift(x.m, -(cut - 1)))
        Odd(y, z) == [neg |-> y.neg, m |-> Shift(y.m, -z), e |-> y.e + z]
        Normal(y) == IF y.m = <<>> THEN FZero ELSE Odd(y, LowZeros(y.m))
    IN  Normal(IF BitLen(x.m) <= 53 THEN x ELSE CutAt(BitLen(x.m) - 53))

\* a + b
FAdd(a, b) ==
    LET Aligned(x, y, e) ==
            IF a.neg = b.neg
            THEN [neg |-> a.neg, m |-> NatAdd(x, y, 0), e |-> e, sticky |-> FALSE]
            ELSE IF NatLess(x, y)
            THEN [neg |-> b.neg, m |-> NatSub(y, x), e |-> e, sticky |-> FALSE]
            ELSE [neg |-> a.neg, m |-> NatSub(x, y), e |-> e, sticky |-> FALSE]
        lower == IF a.e < b.e THEN a.e ELSE b.e
    IN  IF a.m = <<>> THEN b
        ELSE IF b.m = <<>> THEN a
        ELSE Round(Aligned(Shift(a.m, a.e - lower), Shift(b.m, b.e - lower), lower))

\* a - b
FSub(a, b) == FAdd(a, IF b.m = <<>> THEN b ELSE [b EXCEPT !.neg = ~b.neg])

\* a * b
FMul(a, b) ==
    Round([neg |-> a.neg # b.neg, m |-> NatMul(a.m, b.m), e |-> a.e + b.e, sticky |-> FALSE])

\* a / b for b # 0: the divisor shifted (by s) until its highest digit is
\* 2^14 or more, the dividend (by t) until the quotient has 55 binary digits
\* or more
FDiv(a, b) ==
    LET Divided(qr, e) ==
            [neg |-> a.neg # b.neg, m |-> qr.q, e |-> e, sticky |-> qr.r # <<>>]
        s == (15 - (BitLen(b.m) % 15)) % 15
        t == IF BitLen(b.m) + s + 55 > BitLen(a.m)
             THEN BitLen(b.m) + s + 55 - BitLen(a.m) ELSE 0
    IN  IF a.m = <<>> THEN FZero
        ELSE Round(Divided(NatDivMod(Shift(a.m, t), Shift(b.m, s)), a.e - b.e - t + s))

\* the double of the decimal literal n / d, for integers below 2^31 in
\* magnitude (d = 1 for an integer literal)
Double(n, d) ==
    LET Limbs(abs) == Natural(<<abs % 2^15, (abs \div 2^15) % 2^15, abs \div 2^30>>)
        Of(k) == [neg |-> k < 0, m |-> Limbs(IF k < 0 THEN -k ELSE k), e |-> 0,
                  sticky |-> FALSE]
    IN  FDiv(Round(Of(n)), Round(Of(d)))

-----------------------------------------------------------------------------
(* analytics.ts: aggregation by date.  The numeric fields of the records   *)
(* are doubles.                                                            *)

\* the fields aggregateByDate adds up
AdditiveFields ==
    {"revenueWeb", "revenueApp", "totalRevenue", "orders", "spendFB", "spendGoogle",
     "totalSpend", "clicksFB", "clicksGoogle", "totalClicks", "contributionMargin"}

\* a variant of Recalculated that leaves the ratios of the first record of
\* the date as they are
RecalculatedNever(m) == m

\* the map callback of aggregateByDate: the derived metrics of the sums
Recalculated(m) ==
    [m EXCEPT !.aov = IF FPositive(m.orders) THEN FDiv(m.totalRevenue, m.orders)
                      ELSE FZero,
              !.mer = IF FPositive(m.totalRevenue) THEN FDiv(m.totalSpend, m.totalRevenue)
                      ELSE FZero,
              !.roasFB = IF FPositive(m.spendFB)
                         THEN FDiv(FMul(m.revenueWeb, Double(6, 10)), m.spendFB)
                         ELSE FZero,
              !.roasGoogle = IF FPositive(m.spendGoogle)
                             THEN FDiv(FMul(m.revenueWeb, Double(4, 10)), m.spendGoogle)
                             ELSE FZero]

\* byDate holds the records in insertion order; ByDate(k) is its value after
\* the first k records
aggregateByDate(metrics) ==
    LET Put(byDate, m) ==
            IF \A i \in 1..Len(byDate) : byDate[i].dateString # m.dateString
            THEN Append(byDate, [m EXCEPT !.label = "All"])
            ELSE [byDate EXCEPT
                     ![CHOOSE i \in 1..Len(byDate) : byDate[i].dateString = m.dateString] =
                         [f \in DOMAIN m |->
                             IF f \in AdditiveFields THEN FAdd(@[f], m[f]) ELSE @[f]]]
        RECURSIVE ByDate(_)
        ByDate(k) == IF k = 0 THEN <<>> ELSE Put(ByDate(k - 1), metrics[k])
        Mapped(values) == [i \in 1..Len(values) |-> Recalculated(values[i])]
    IN  Mapped(ByDate(Len(metrics)))

\* the DailyMetrics record that transformSheetRow and toCompatibleMetrics
\* build from the cells of a sheet row, given in cents (the date metadata
\* and the conversions left out)
DailyMetric(cells) ==
    LET Ratios(m) ==
            [m EXCEPT !.aov = IF FPositive(m.orders) THEN FDiv(m.totalRevenue, m.orders)
                              ELSE FZero,
                      !.mer = IF FPositive(m.totalRevenue)
                              THEN FDiv(m.totalSpend, m.totalRevenue) ELSE FZero,
                      !.contributionMargin = FSub(m.totalRevenue, m.totalSpend),
                      !.roasFB = IF FPositive(m.spendFB)
                                 THEN FDiv(FMul(m.revenueWeb, Double(6, 10)), m.spendFB)
                                 ELSE FZero,
                      !.roasGoogle = IF FPositive(m.spendGoogle)
                                     THEN FDiv(FMul(m.revenueWeb, Double(4, 10)), m.spendGoogle)
                                     ELSE FZero]
        Totals(m) ==
            [m EXCEPT !.totalRevenue = FAdd(m.revenueWeb, m.revenueApp),
                      !.totalSpend = FAdd(m.spendFB, m.spendGoogle)]
    IN  Ratios(Totals([dateString |-> cells.dateString, label |-> cells.label,
                       revenueWeb |-> Double(cells.revenueWeb, 100),
                       revenueApp |-> Double(cells.revenueApp, 100),
                       totalRevenue |-> FZero,
                       orders |-> Double(cells.orders, 1),
                       aov |-> FZero,
                       spendFB |-> Double(cells.spendFB, 100),
                       spendGoogle |-> Double(cells.spendGoogle, 100),
                       totalSpend |-> FZero,
                       clicksFB |-> FZero, clicksGoogle |-> FZero, totalClicks |-> FZero,
                       mer |-> FZero, contributionMargin |-> FZero,
                       roasFB |-> FZero, roasGoogle |-> FZero]))

(* Aggregation as a system: aggregateByDate is called on two batches A and *)
(* B of at most MaxMetrics records each, on the two results put together,  *)
(* and on A and B put together.  The records are those of the rows of two  *)
(* days and two labels, the second day without sales; amounts in cents.    *)

MaxMetrics == 2

InitAggregate ==
    /\ tz = 0
    /\ EmptyHarmonizer
    /\ filters = Null
    /\ \E A, B \in SeqsUpTo({DailyMetric(cells) : cells \in
                 {[dateString |-> "2026-01-01", label |-> "FMH.NL",
                   revenueWeb |-> 1000, revenueApp |-> 0, orders |-> 1,
                   spendFB |-> 0, spendGoogle |-> 0],
                  [dateString |-> "2026-01-01", label |-> "FMH.BE",
                   revenueWeb |-> 1001, revenueApp |-> 500, orders |-> 2,
                   spendFB |-> 250, spendGoogle |-> 305],
                  [dateString |-> "2026-01-02", label |-> "FMH.NL",
                   revenueWeb |-> 0, revenueApp |-> 0, orders |-> 0,
                   spendFB |-> 0, spendGoogle |-> 0]}}, MaxMetrics) :
          input = [A |-> A, B |-> B]
    /\ ret = NoCall

CallAggregate ==
    LET Aggregated(ofA, ofB) ==
            ret' = [op |-> "aggregateByDate",
                    ofA |-> ofA,
                    ofB |-> ofB,
                    ofParts |-> aggregateByDate(ofA \o ofB),
                    ofAll |-> aggregateByDate(input.A \o input.B)]
    IN  /\ ret = NoCall
        /\ Aggregated(aggregateByDate(input.A), aggregateByDate(input.B))
        /\ UNCHANGED <<tz, filters, input, HarmonizerVars>>

SpecAggregate == InitAggregate /\ [][CallAggregate]_vars

-----------------------------------------------------------------------------
(* analytics.ts: pacing against the monthly target.  Amounts and           *)
(* percentages are doubles; now is the reference date.                     *)

\* a variant of calculatePacing that paces against the whole target instead
\* of the target prorated to the days passed
calculatePacingUnprorated(metrics, target, now) ==
    LET daysInMonth == getDaysInMonth(GetFullYear(now), GetMonth(now))
        daysPassed == GetDate(now)
        RECURSIVE Reduced(_)
        Reduced(k) ==
            IF k = 0 THEN FZero
            ELSE IF /\ GetMonth(metrics[k].date) = GetMonth(now)
                    /\ GetFullYear(metrics[k].date) = GetFullYear(now)
            THEN FAdd(Reduced(k - 1), metrics[k].totalRevenue)
            ELSE Reduced(k - 1)
        Paced(currentRevenue, projectedRevenue, pacingPercentage, projectedPercentage) ==
            [currentRevenue |-> currentRevenue,
             targetRevenue |-> target.revenueTarget,
             daysPassed |-> daysPassed,
             daysInMonth |-> daysInMonth,
             projectedRevenue |-> projectedRevenue,
             pacingPercentage |-> pacingPercentage,
             projectedPercentage |-> projectedPercentage,
             onTrack |-> ~FSub(projectedPercentage, Double(95, 1)).neg]
        Projected(currentRevenue, projectedRevenue) ==
            Paced(currentRevenue, projectedRevenue,
                  IF FPositive(target.revenueTarget)
                  THEN FMul(FDiv(currentRevenue, target.revenueTarget), Double(100, 1))
                  ELSE FZero,
                  IF FPositive(target.revenueTarget)
                  THEN FMul(FDiv(projectedRevenue, target.revenueTarget), Double(100, 1))
                  ELSE FZero)
        Rated(currentRevenue, dailyRate) ==
            Projected(currentRevenue, FMul(dailyRate, Double(daysInMonth, 1)))
        Current(currentRevenue) ==
            Rated(currentRevenue,
                  IF daysPassed > 0 THEN FDiv(currentRevenue, Double(daysPassed, 1)) ELSE FZero)
    IN  Current(Reduced(Len(metrics)))

calculatePacing(metrics, target, now) ==
    LET daysInMonth == getDaysInMonth(GetFullYear(now), GetMonth(now))
        daysPassed == GetDate(now)
        RECURSIVE Reduced(_)
        Reduced(k) ==
            IF k = 0 THEN FZero
            ELSE IF /\ GetMonth(metrics[k].date) = GetMonth(now)
                    /\ GetFullYear(metrics[k].date) = GetFullYear(now)
            THEN FAdd(Reduced(k - 1), metrics[k].totalRevenue)
            ELSE Reduced(k - 1)
        Paced(currentRevenue, projectedRevenue, pacingPercentage, projectedPercentage) ==
            [currentRevenue |-> currentRevenue,
             targetRevenue |-> target.revenueTarget,
             daysPassed |-> daysPassed,
             daysInMonth |-> daysInMonth,
             projectedRevenue |-> projectedRevenue,
             pacingPercentage |-> pacingPercentage,
             projectedPercentage |-> projectedPercentage,
             onTrack |-> ~FSub(projectedPercentage, Double(95, 1)).neg]
        Projected(currentRevenue, projectedRevenue) ==
            Paced(currentRevenue, projectedRevenue,
                  IF FPositive(target.revenueTarget)
                  THEN FMul(FDiv(currentRevenue,
                                 FMul(target.revenueTarget, Double(daysPassed, daysInMonth))),
                            Double(100, 1))
                  ELSE FZero,
                  IF FPositive(target.revenueTarget)
                  THEN FMul(FDiv(projectedRevenue, target.revenueTarget), Double(100, 1))
                  ELSE FZero)
        Rated(currentRevenue, dailyRate) ==
            Projected(currentRevenue, FMul(dailyRate, Double(daysInMonth, 1)))
        Current(currentRevenue) ==
            Rated(currentRevenue,
                  IF daysPassed > 0 THEN FDiv(currentRevenue, Double(daysPassed, 1)) ELSE FZero)
    IN  Current(Reduced(Len(metrics)))

(* Pacing as a system: one call of calculatePacing at a reference date on  *)
(* the records of the last day of the month before, of the first day of    *)
(* the month, of the reference day and of the last day of the month,       *)
(* against a target of the month.  Amounts are given in cents, targets in  *)
(* euros.                                                                  *)

InitPacing ==
    /\ tz \in TZOffsets
    /\ EmptyHarmonizer
    /\ filters = Null
    /\ \E day \in {<<2026, 0, 1>>, <<2026, 0, 31>>, <<2026, 1, 14>>, <<2026, 1, 28>>,
                   <<2026, 3, 30>>, <<2024, 1, 28>>, <<2024, 1, 29>>},
          hour \in {0, 23},
          first \in {0, 2900, 6100},
          reference \in {0, 2900, 6100, 9500, 10000},
          last \in {0, 6100},
          revenueTarget \in {0, 29, 61, 100, 122} :
          input = [metrics |->
                       <<[date |-> NewDate(day[1], day[2], 0),
                          totalRevenue |-> Double(700, 100)],
                         [date |-> NewDate(day[1], day[2], 1),
                          totalRevenue |-> Double(first, 100)],
                         [date |-> NewDate(day[1], day[2], day[3]),
                          totalRevenue |-> Double(reference, 100)],
                         [date |-> NewDate(day[1], day[2] + 1, 0),
                          totalRevenue |-> Double(last, 100)]>>,
                   target |-> [revenueTarget |-> Double(revenueTarget, 1)],
                   referenceDate |-> NewDate(day[1], day[2], day[3]) + hour]
    /\ ret = NoCall

CallPacing ==
    /\ ret = NoCall
    /\ ret' = [op |-> "calculatePacing",
               value |-> calculatePacing(input.metrics, input.target, input.referenceDate)]
    /\ UNCHANGED <<tz, filters, input, HarmonizerVars>>

SpecPacing == InitPacing /\ [][CallPacing]_vars

-----------------------------------------------------------------------------
(* analytics.ts: the marketing efficiency ratio and its status band.       *)

calculateMERStatus(metrics) ==
    LET RECURSIVE Revenue(_)
        Revenue(k) == IF k = 0 THEN FZero ELSE FAdd(Revenue(k - 1), metrics[k].totalRevenue)
        RECURSIVE Spend(_)
        Spend(k) == IF k = 0 THEN FZero ELSE FAdd(Spend(k - 1), metrics[k].totalSpend)
        Banded(mer) ==
            IF FSub(mer, Double(15, 100)).neg
            THEN [value |-> mer, status |-> "excellent", threshold |-> Double(15, 100)]
            ELSE IF FSub(mer, Double(20, 100)).neg
            THEN [value |-> mer, status |-> "good", threshold |-> Double(20, 100)]
            ELSE IF FSub(mer, Double(25, 100)).neg
            THEN [value |-> mer, status |-> "warning", threshold |-> Double(25, 100)]
            ELSE [value |-> mer, status |-> "danger", threshold |-> Double(30, 100)]
        Ratio(totalRevenue, totalSpend) ==
            Banded(IF FPositive(totalRevenue) THEN FDiv(totalSpend, totalRevenue) ELSE FZero)
    IN  Ratio(Revenue(Len(metrics)), Spend(Len(metrics)))

(* The status as a system: one call of calculateMERStatus on at most       *)
(* MaxMetrics records, with revenue and spend given in cents.              *)

InitMER ==
    /\ tz = 0
    /\ EmptyHarmonizer
    /\ filters = Null
    /\ input \in SeqsUpTo({[totalRevenue |-> Double(cents[1], 100),
                            totalSpend |-> Double(cents[2], 100)] :
                               cents \in {0, 5050, 10000}
                                            \X {0, 757, 1500, 2000, 2500, 2600, 3000}},
                          MaxMetrics)
    /\ ret = NoCall

CallMER ==
    /\ ret = NoCall
    /\ ret' = [op |-> "calculateMERStatus", value |-> calculateMERStatus(input)]
    /\ UNCHANGED <<tz, filters, input, HarmonizerVars>>

SpecMER == InitMER /\ [][CallMER]_vars

-----------------------------------------------------------------------------
(* PasswordGate.tsx: the CSV export of a sheet.  A text is a sequence of    *)
(* characters.                                                             *)

\* parseCSVLine splitting at every delimiter, quoted or not
parseCSVLineUnquoted(line, delimiter) ==
    LET Field(current) == SelectSeq(Trim(current), LAMBDA c : c # "\"")
        Step(s, char) ==
            IF char = "\""
            THEN s
            ELSE IF char = delimiter
            THEN [s EXCEPT !.result = Append(s.result, Field(s.current)), !.current = <<>>]
            ELSE [s EXCEPT !.current = Append(s.current, char)]
        RECURSIVE Scanned(_)
        Scanned(i) ==
            IF i = 0 THEN [result |-> <<>>, current |-> <<>>]
            ELSE Step(Scanned(i - 1), line[i])
        Last(s) == Append(s.result, Field(s.current))
    IN  Last(Scanned(Len(line)))

\* Each field is pushed as current.trim().replace(/"/g, '').
parseCSVLine(line, delimiter) ==
    LET Field(current) == SelectSeq(Trim(current), LAMBDA c : c # "\"")
        Step(s, char) ==
            IF char = "\""
            THEN [s EXCEPT !.inQuotes = ~s.inQuotes]
            ELSE IF char = delimiter /\ ~s.inQuotes
            THEN [s EXCEPT !.result = Append(s.result, Field(s.current)), !.current = <<>>]
            ELSE [s EXCEPT !.current = Append(s.current, char)]
        RECURSIVE Scanned(_)
        Scanned(i) ==
            IF i = 0 THEN [result |-> <<>>, current |-> <<>>, inQuotes |-> FALSE]
            ELSE Step(Scanned(i - 1), line[i])
        Last(s) == Append(s.result, Field(s.current))
    IN  Last(Scanned(Len(line)))

\* A row is a function from the header names to texts.
parseCSV(csv) ==
    LET RECURSIVE Split(_)
        \* text.split('\n')
        Split(text) ==
            IF \E i \in 1..Len(text) : text[i] = "\n"
            THEN LET Cut(i) == <<SubSeq(text, 1, i - 1)>> \o Split(SubSeq(text, i + 1, Len(text)))
                 IN  Cut(CHOOSE i \in 1..Len(text) :
                            text[i] = "\n" /\ \A j \in 1..(i - 1) : text[j] # "\n")
            ELSE <<text>>
        Row(headers, values) ==
            [header \in {headers[i] : i \in 1..Len(headers)} |->
                LET index == CHOOSE i \in 1..Len(headers) :
                                 headers[i] = header /\ \A j \in (i + 1)..Len(headers) : headers[j] # header
                IN  IF index <= Len(values) THEN values[index] ELSE <<>>]
        Rows(headers, delimiter, given) ==
            [i \in 1..Len(given) |-> Row(headers, parseCSVLine(Trim(given[i]), delimiter))]
        Delimited(lines, delimiter) ==
            Rows(parseCSVLine(lines[1], delimiter), delimiter,
                 SelectSeq(Tail(lines), LAMBDA line : Trim(line) # <<>>))
        Parsed(lines) ==
            IF Len(lines) < 2 THEN <<>>
            ELSE Delimited(lines, IF \E i \in 1..Len(lines[1]) : lines[1][i] = ";"
                                  THEN ";" ELSE ",")
    IN  Parsed(Split(Trim(csv)))

MaxFields == 3

(* The export as a system: one call of parseCSV on a file written with a   *)
(* separator: a header of at most MaxFields names, a data line of at most  *)
(* MaxFields cells, and a layout (line ends, a blank line, a second data   *)
(* line).  A cell is kept with the text it is written as and the value it  *)
(* stands for.                                                             *)

InitCSV ==
    /\ tz = 0
    /\ EmptyHarmonizer
    /\ filters = Null
    /\ \E separator \in {";", ","}, eol \in {<<"\n">>, <<"\r", "\n">>},
          layout \in {"header", "line", "blank", "ended", "two"},
          count \in 1..MaxFields :
          LET other == IF separator = ";" THEN "," ELSE ";"
              Cells == {[text |-> <<>>, value |-> <<>>],
                        [text |-> <<"7">>, value |-> <<"7">>],
                        [text |-> <<" ", "7", " ">>, value |-> <<"7">>],
                        [text |-> <<"\"", "1", separator, "5", "\"">>,
                         value |-> <<"1", separator, "5">>],
                        [text |-> <<"1", other, "5">>, value |-> <<"1", other, "5">>]}
              RECURSIVE Joined(_)
              Joined(texts) ==
                  IF Len(texts) = 0 THEN <<>>
                  ELSE IF Len(texts) = 1 THEN texts[1]
                  ELSE texts[1] \o <<separator>> \o Joined(Tail(texts))
              Written(cells) == Joined([i \in 1..Len(cells) |-> cells[i].text])
              names == SubSeq(<<<<"a">>, <<"b">>, <<"c">>, <<"d">>, <<"e">>>>, 1, count)
              second == <<[text |-> <<"9">>, value |-> <<"9">>]>>
              File(cells) ==
                  CASE layout = "header" -> Joined(names)
                    [] layout = "line" -> Joined(names) \o eol \o Written(cells)
                    [] layout = "blank" -> Joined(names) \o eol \o <<" ">> \o eol \o Written(cells)
                    [] layout = "ended" -> Joined(names) \o eol \o Written(cells) \o eol
                    [] layout = "two" ->
                          Joined(names) \o eol \o Written(cells) \o eol \o Written(second)
          IN  \E cells \in SeqsUpTo(Cells, MaxFields) :
                 input = [separator |-> separator,
                          names |-> names,
                          lines |-> CASE layout = "header" -> <<>>
                                      [] layout = "two" -> <<cells, second>>
                                      [] OTHER -> <<cells>>,
                          csv |-> File(cells)]
    /\ ret = NoCall

CallCSV ==
    /\ ret = NoCall
    /\ ret' = [op |-> "parseCSV", value |-> parseCSV(input.csv)]
    /\ UNCHANGED <<tz, filters, input, HarmonizerVars>>

SpecCSV == InitCSV /\ [][CallCSV]_vars

-----------------------------------------------------------------------------
(* useFashionData.ts: a refresh cycle, the query function of the hook.  A  *)
(* fetch either throws or gives the rows of the tab; the cycle works on a  *)
(* fresh harmonizer and either throws or returns the harmonized dataset.   *)
(* The loading flag, the last-refresh time and the toasts are left out.    *)

InitRefresh ==
    /\ tz \in TZOffsets
    /\ EmptyHarmonizer
    /\ filters = Null
    /\ \E liveFetched \in BOOLEAN, targetsFetched \in BOOLEAN,
          liveRows \in SeqsUpTo({Sheet.NL31, Sheet.JunkDate, Sheet.Empty}, MaxRows),
          targetRows \in SeqsUpTo({TargetRow.Jan, TargetRow.Words}, MaxRows) :
          /\ ~liveFetched => liveRows = <<>> /\ targetRows = <<>> /\ targetsFetched
          /\ ~targetsFetched => targetRows = <<>>
          /\ input = [live |-> [fetched |-> liveFetched, rows |-> liveRows],
                      targets |-> [fetched |-> targetsFetched, rows |-> targetRows]]
    /\ ret = NoCall

\* a variant of LiveFetchFailed that goes on with no live rows
LiveFetchFailedIgnored ==
    /\ ret = NoCall
    /\ ~input.live.fetched
    /\ AddLiveDataEuropean(<<>>)

\* await fetchGoogleSheetCSV('', 'Daily_Input') throws: so does the query function
LiveFetchFailed ==
    /\ ret = NoCall
    /\ ~input.live.fetched
    /\ ret' = [op |-> "queryFn", status |-> "error"]
    /\ UNCHANGED <<tz, filters, input, HarmonizerVars>>

\* the rows of Daily_Input arrive: harmonizer.addLiveDataEuropean(liveData)
LiveFetched ==
    /\ ret = NoCall
    /\ input.live.fetched
    /\ AddLiveDataEuropean(input.live.rows)

\* the rows of Targets arrive: if (targetsData.length > 0) harmonizer.addTargets(targetsData)
TargetsFetched ==
    /\ ret.op = "addLiveDataEuropean"
    /\ input.targets.fetched
    /\ Len(input.targets.rows) > 0
    /\ AddTargets(input.targets.rows)

\* after the Targets tab was added, came empty or its fetch threw (the
\* inner catch): return harmonizer.harmonize(false)
RefreshReturns ==
    /\ \/ ret.op = "addTargets"
       \/ /\ ret.op = "addLiveDataEuropean"
          /\ ~input.targets.fetched \/ Len(input.targets.rows) = 0
    /\ Harmonize(FALSE, FALSE)

SpecRefresh ==
    InitRefresh /\ [][LiveFetchFailed \/ LiveFetched \/ TargetsFetched \/ RefreshReturns]_vars

-----------------------------------------------------------------------------
(* parseEuropeanNumber as a system: one call on undefined, on a text that  *)
(* is no number, or on a canonical European number written from a sign, an *)
(* integer part with periods between its groups and a comma with decimals, *)
(* with or without blanks around it.  The input keeps the kind of the      *)
(* value and, for a number, the rational it denotes.                        *)

InitNumber ==
    /\ tz = 0
    /\ EmptyHarmonizer
    /\ filters = Null
    /\ \/ input = [kind |-> "undefined", value |-> Undefined]
       \/ \E text \in {<<>>, <<" ">>, <<"a", "b", "c">>, <<"-">>, <<".">>, <<",">>,
                       <<"n", "/", "a">>, <<"E", "U", "R", " ", "5">>, <<"-", "a", "1">>,
                       <<"I", "n", "f", "i", "n", "i", "t", "y">>,
                       <<"-", "I", "n", "f", "i", "n", "i", "t", "y">>,
                       <<" ", "I", "n", "f", "i", "n", "i", "t", "y", " ">>,
                       <<"I", "n", "f">>, <<"i", "n", "f", "i", "n", "i", "t", "y">>} :
             input = [kind |-> "text", value |-> text]
       \/ \E neg \in BOOLEAN, blank \in {<<>>, <<" ">>},
             whole \in {[text |-> <<"0">>, units |-> 0],
                        [text |-> <<"7">>, units |-> 7],
                        [text |-> <<"1", "2">>, units |-> 12],
                        [text |-> <<"1", ".", "6", "3", "3">>, units |-> 1633],
                        [text |-> <<"1", ".", "0", "0", "0", ".", "0", "0", "0">>,
                         units |-> 1000000]},
             decimals \in {[text |-> <<>>, hundredths |-> 0],
                           [text |-> <<",", "5">>, hundredths |-> 50],
                           [text |-> <<",", "5", "0">>, hundredths |-> 50],
                           [text |-> <<",", "0", "5">>, hundredths |-> 5]} :
             input = [kind |-> "number",
                      value |-> blank \o (IF neg THEN <<"-">> ELSE <<>>)
                                   \o whole.text \o decimals.text \o blank,
                      denotes |-> Rat((IF neg THEN -1 ELSE 1)
                                         * (100 * whole.units + decimals.hundredths), 100)]
    /\ ret = NoCall

CallNumber ==
    /\ ret = NoCall
    /\ ret' = [op |-> "parseEuropeanNumber", value |-> parseEuropeanNumber(input.value)]
    /\ UNCHANGED <<tz, filters, input, HarmonizerVars>>

SpecNumber == InitNumber /\ [][CallNumber]_vars

-----------------------------------------------------------------------------
(* dashboardStore.ts: the filters of the dashboard.  Of the filters, the   *)
(* date range, the comparison fields and enableYoY are kept; a range that  *)
(* may be null is Null or Some(range).  subDays, subYears and              *)
(* differenceInDays are those of date-fns.                                 *)

calculateComparisonRange(primary, mode) ==
    LET Midnight(date) == NewDate(GetFullYear(date), GetMonth(date), GetDate(date))
        \* the days between the calendar days, less one if the last day is not full
        differenceInDays(dateLeft, dateRight) ==
            LET sign == IF dateLeft < dateRight THEN -1 ELSE IF dateLeft > dateRight THEN 1 ELSE 0
                calendar == LocalDay(dateLeft) - LocalDay(dateRight)
                difference == IF calendar < 0 THEN -calendar ELSE calendar
                moved == dateLeft - sign * difference * HoursPerDay
                notFull == IF sign = 1 THEN moved < dateRight
                           ELSE IF sign = -1 THEN moved > dateRight
                           ELSE FALSE
            IN  sign * (difference - IF notFull THEN 1 ELSE 0)
        \* date.setDate(date.getDate() - amount)
        subDays(date, amount) == date - amount * HoursPerDay
        \* addMonths(date, -12): the day of the month is kept unless the month is shorter
        subYears(date) ==
            LET daysInMonth == GetDate(NewDate(GetFullYear(date) - 1, GetMonth(date) + 1, 0))
            IN  NewDate(GetFullYear(date) - 1, GetMonth(date),
                        IF GetDate(date) >= daysInMonth THEN daysInMonth ELSE GetDate(date))
                   + (date - Midnight(date))
        Previous(daysDiff) ==
            IF mode = "previous_period"
            THEN [start |-> subDays(primary.start, daysDiff + 1),
                  end |-> subDays(primary.start, 1)]
            ELSE [start |-> subYears(primary.start), end |-> subYears(primary.end)]
    IN  Previous(differenceInDays(primary.end, primary.start))

\* a variant of setDateRange that leaves the comparison range as it is
SetDateRangeOnly(range) ==
    /\ filters # Null
    /\ filters' = [filters EXCEPT !.dateRange = range]
    /\ ret' = [op |-> "setDateRange"]
    /\ UNCHANGED <<tz, input, HarmonizerVars>>

SetDateRange(range) ==
    /\ filters # Null
    /\ filters' = [filters EXCEPT
                      !.dateRange = range,
                      !.comparisonRange =
                          IF filters.comparisonEnabled
                          THEN Some(calculateComparisonRange(range, filters.comparisonMode))
                          ELSE filters.comparisonRange]
    /\ ret' = [op |-> "setDateRange"]
    /\ UNCHANGED <<tz, input, HarmonizerVars>>

SetComparisonEnabled(enabled) ==
    /\ filters # Null
    /\ filters' = [filters EXCEPT
                      !.comparisonEnabled = enabled,
                      !.comparisonRange =
                          IF enabled
                          THEN Some(calculateComparisonRange(filters.dateRange,
                                                             filters.comparisonMode))
                          ELSE Null,
                      !.enableYoY = enabled]
    /\ ret' = [op |-> "setComparisonEnabled"]
    /\ UNCHANGED <<tz, input, HarmonizerVars>>

SetComparisonMode(mode) ==
    /\ filters # Null
    /\ filters' = [filters EXCEPT
                      !.comparisonMode = mode,
                      !.comparisonRange =
                          IF filters.comparisonEnabled
                          THEN Some(calculateComparisonRange(filters.dateRange, mode))
                          ELSE Null]
    /\ ret' = [op |-> "setComparisonMode"]
    /\ UNCHANGED <<tz, input, HarmonizerVars>>

(* The store as a system: created with the default filters at some time    *)
(* (the year so far, to the end of the month), it receives any sequence of *)
(* setDateRange, setComparisonEnabled and setComparisonMode; the other     *)
(* setters are left out.  The ranges are those the pickers give: whole     *)
(* days from midnight to midnight, from midnight to the last hour of a     *)
(* day, and from an hour of a day to the same hour of a later day.  The    *)
(* input holds the ranges.                                                 *)

InitStore ==
    /\ tz \in TZOffsets
    /\ EmptyHarmonizer
    /\ input = {[start |-> NewDate(day[1], day[2], day[3]) + hours[1],
                 end |-> NewDate(day[1], day[2], day[3] + days) + hours[2]] :
                   day \in {<<2024, 1, 29>>, <<2024, 2, 1>>, <<2025, 11, 31>>, <<2026, 0, 1>>},
                   days \in {0, 6, 30, 365},
                   hours \in {<<0, 0>>, <<0, 23>>, <<10, 10>>}}
    /\ \E now \in {NewDate(2026, 1, 14) + 9, NewDate(2024, 1, 29) + 23} :
          filters = [dateRange |-> [start |-> NewDate(GetFullYear(now), 0, 1),
                                    end |-> NewDate(GetFullYear(now), GetMonth(now) + 1, 0)],
                     enableYoY |-> FALSE,
                     comparisonEnabled |-> FALSE,
                     comparisonMode |-> "previous_year",
                     comparisonRange |-> Null]
    /\ ret = NoCall

SpecStore ==
    InitStore /\ [][\/ \E range \in input : SetDateRange(range)
                    \/ \E enabled \in BOOLEAN : SetComparisonEnabled(enabled)
                    \/ \E mode \in {"previous_period", "previous_year", "custom"} :
                          SetComparisonMode(mode)]_vars

-----------------------------------------------------------------------------
(* Claims about date alignment *)

Aligned == ret.op = "alignDateByDayOfWeek"

\* the ordinal occurrence of a date's weekday within its month: 1st, 2nd, ...
OccurrenceInMonth(t) == CeilDiv(GetDate(t), 7)

\* the days of month `month` (0-based) of `year` that are the k-th `weekday`
KthWeekdays(year, month, weekday, k) ==
    {NewDate(year, month, day) : day \in
        {dd \in 1..getDaysInMonth(year, month) :
            GetDay(NewDate(year, month, dd)) = weekday /\ CeilDiv(dd, 7) = k}}

\* C2: a current date that is the k-th occurrence of its weekday in its month
\* is aligned to the k-th occurrence of that weekday in the same month one
\* year earlier, whenever that occurrence exists.
C2_KthWeekdayToKthWeekday ==
    Aligned =>
        \A d \in KthWeekdays(GetFullYear(input) - 1, GetMonth(input),
                             GetDay(input), OccurrenceInMonth(input)) :
            ret.value = d

\* C3: the aligned date lies in the same calendar month of the previous year,
\* and when the required weekday occurrence does not exist it is the same
\* day-of-month of that month.
C3_SameMonthPreviousYear ==
    Aligned =>
        /\ GetFullYear(ret.value) = GetFullYear(input) - 1
        /\ GetMonth(ret.value) = GetMonth(input)
        /\ getNthWeekdayOfMonth(GetFullYear(input) - 1, GetMonth(input),
                                GetDay(input), getWeekOfMonth(input)) = Null
              => GetDate(ret.value) = GetDate(input)

-----------------------------------------------------------------------------
(* Claims about the harmonized output *)

\* the number of places of seq that hold x
Count(seq, x) == Cardinality({i \in 1..Len(seq) : seq[i] = x})

\* every element of a occurs in b at least as often as in a
Contained(a, b) == \A i \in 1..Len(a) : Count(a, a[i]) <= Count(b, a[i])

HarmonizeReturned == ret.op = "harmonize"

\* the records the accumulators hold
Accumulated == historicalData \o liveData

ObservedLabels == {Accumulated[i].label : i \in 1..Len(Accumulated)}
ObservedDays == {LocalDay(Accumulated[i].date) : i \in 1..Len(Accumulated)}
\* the calendar days from the earliest to the latest observed date, inclusive
SpanDays ==
    (CHOOSE hi \in ObservedDays : \A o \in ObservedDays : o <= hi)
    - (CHOOSE lo \in ObservedDays : \A o \in ObservedDays : lo <= o) + 1

\* C1: whenever the accumulators hold a metric, harmonize(true) returns
\* exactly (distinct labels) x (calendar days from the earliest to the latest
\* date) metrics, no two of them for the same calendar day and label.
C1_FilledGridIsExact ==
    (HarmonizeReturned /\ ret.fillMissing /\ Len(Accumulated) > 0) =>
        /\ Len(ret.value.metrics) = Cardinality(ObservedLabels) * SpanDays
        /\ \A i, j \in 1..Len(ret.value.metrics) :
              i # j => \/ ret.value.metrics[i].label # ret.value.metrics[j].label
                       \/ LocalDay(ret.value.metrics[i].date)
                            # LocalDay(ret.value.metrics[j].date)

\* what harmonize(false) returns in the current state
Snapshot == View(HarmonizedData(FALSE))

\* C4: an add call keeps what was accumulated: every metric, target and event
\* that harmonize(false) returned before the call is still returned after it.
C4_AddCallsAppend ==
    [][calls' = calls + 1 =>
          /\ Contained(Snapshot.metrics, Snapshot'.metrics)
          /\ Contained(Snapshot.targets, Snapshot'.targets)
          /\ Contained(Snapshot.events, Snapshot'.events)]_vars

\* C5: a harmonize call leaves the five accumulators as they were, and a
\* harmonize(f) call that follows a harmonize(f) call returns the same
\* metrics, targets, events and sources.
C5_HarmonizeIsIdempotent ==
    [][ret'.op = "harmonize" =>
          /\ <<historicalData, liveData, targets, events, errors>>'
                = <<historicalData, liveData, targets, events, errors>>
          /\ (HarmonizeReturned /\ ret.fillMissing = ret'.fillMissing)
                => ret'.value = ret.value]_vars

IsSortedByDate(seq) == \A i \in 1..(Len(seq) - 1) : seq[i].date <= seq[i + 1].date

\* harmonize(true) has returned gap-filled, sorted metrics while the live
\* accumulator is still in its unsorted order
C5_Witness ==
    /\ HarmonizeReturned /\ ret.fillMissing
    /\ Len(ret.value.metrics) > Len(Accumulated)
    /\ ~IsSortedByDate(liveData)
    /\ IsSortedByDate(ret.value.metrics)

\* C6: once a dataset has been returned, no later call changes its metrics,
\* targets, events or sources.
C6_ReturnedDatasetImmutable ==
    [][held # NoDataset => View(held') = View(held)]_vars

\* a dataset with historical metrics and targets is held while later calls
\* have pushed onto the historical accumulator or replaced the targets
C6_Witness ==
    /\ held # NoDataset
    /\ later > 0
    /\ \/ /\ held.metrics.items # <<>>
          /\ Len(historicalData) > Len(held.metrics.items)
       \/ /\ held.targets.items # <<>>
          /\ targets # held.targets.items

NumericFields ==
    {"revenueWeb", "revenueApp", "totalRevenue", "orders", "aov", "spendFB", "spendGoogle",
     "totalSpend", "clicksFB", "clicksGoogle", "totalClicks", "mer", "contributionMargin",
     "roasFB", "roasGoogle"}

IsZeroValued(m) == \A f \in NumericFields : m[f] = Zero

\* C7: the metrics harmonize returns hold every accumulated record as often
\* as the accumulators hold it, and every further record is zero-valued.
C7_NoRecordDroppedOrAltered ==
    HarmonizeReturned =>
        /\ Contained(Accumulated, ret.value.metrics)
        /\ \A i \in 1..Len(ret.value.metrics) :
              Count(ret.value.metrics, ret.value.metrics[i])
                    > Count(Accumulated, ret.value.metrics[i])
                 => IsZeroValued(ret.value.metrics[i])
        /\ ~ret.fillMissing => Len(ret.value.metrics) = Len(Accumulated)

\* harmonize(true) has returned gap records next to a historical and a live
\* record of the same label and calendar day
C7_Witness ==
    /\ HarmonizeReturned /\ ret.fillMissing
    /\ Len(ret.value.metrics) > Len(Accumulated)
    /\ \E i \in 1..Len(historicalData), j \in 1..Len(liveData) :
          /\ historicalData[i].label = liveData[j].label
          /\ LocalDay(historicalData[i].date) = LocalDay(liveData[j].date)
          /\ ~IsZeroValued(historicalData[i])
          /\ ~IsZeroValued(liveData[j])

-----------------------------------------------------------------------------
(* Claims about a live batch *)

DaysInMonthOf(y, m) ==
    IF m = 2 THEN (IF (y % 4 = 0 /\ y % 100 # 0) \/ y % 400 = 0 THEN 29 ELSE 28)
    ELSE IF m \in {4, 6, 9, 11} THEN 30 ELSE 31

\* a date text the sheet transformer is expected to read
IsReadableSheetDate(text) ==
    /\ text.fmt \in {"d-M-yyyy", "d/M/yyyy", "d.M.yyyy", "yyyy-MM-dd"}
    /\ text.m \in 1..12
    /\ text.d \in 1..DaysInMonthOf(text.y, text.m)

IsBlankRow(rawRow) == rawRow.Date.fmt \in {"", "undefined"} /\ rawRow.Label = ""

LiveBatchReturned == ret.op = "addLiveDataEuropean"

BlankRows == {i \in 1..Len(input) : IsBlankRow(input[i])}
BadDateRows ==
    {i \in 1..Len(input) : ~IsBlankRow(input[i]) /\ ~IsReadableSheetDate(input[i].Date)}
KeptRows == (1..Len(input)) \ (BlankRows \cup BadDateRows)

\* C8: of the rows of a live batch, the blank ones are counted nowhere, each
\* other row with an unreadable date is one error, each remaining row is one
\* stored record, and the three counts add up to the number of rows.
C8_LiveBatchAccounting ==
    LiveBatchReturned =>
        /\ ret.success = Cardinality(KeptRows)
        /\ ret.errors = Cardinality(BadDateRows)
        /\ ret.success + ret.errors + Cardinality(BlankRows) = Len(input)
        /\ Len(liveData) = Cardinality(KeptRows)
        /\ \A i \in KeptRows : \E j \in 1..Len(liveData) :
              /\ liveData[j].label = (IF input[i].Label = "" THEN "Unknown" ELSE input[i].Label)
              /\ liveData[j].dateString
                    = DateText("yyyy-MM-dd", input[i].Date.y, input[i].Date.m, input[i].Date.d)

\* a batch with a blank row and a row with an unreadable date ahead of a kept row
C8_Witness ==
    /\ LiveBatchReturned
    /\ BlankRows # {}
    /\ \E i \in BadDateRows, j \in KeptRows : i < j

-----------------------------------------------------------------------------
(* Claims about the warning log *)

\* C9: an add call that reports errors appends one warning to the log and
\* keeps the earlier ones, an add call that reports none and a harmonize call
\* leave the log as it was, and the log has one entry for each add call with
\* errors since construction or the last clear().
C9_WarningLogGrows ==
    [][/\ calls' = calls + 1 =>
            IF ret'.errors > 0
            THEN /\ Len(getErrors') = Len(getErrors) + 1
                 /\ SubSeq(getErrors', 1, Len(getErrors)) = getErrors
            ELSE getErrors' = getErrors
       /\ ret'.op = "harmonize" => getErrors' = getErrors
       /\ Len(getErrors') = errorCalls']_vars

\* an add call without errors has followed an add call with errors
C9_Witness ==
    /\ calls = 2
    /\ Len(getErrors) = 1
    /\ ret.op \notin {"none", "harmonize", "clear"}
    /\ ret.errors = 0

-----------------------------------------------------------------------------
(* Claims about the Targets tab *)

TargetsReturned == ret.op = "addTargets"

\* the month cell of a target row: r['Month'] || r['month'] || ''
MonthText(r) ==
    IF r.Month \notin {Undefined, <<>>} THEN r.Month
    ELSE IF r.month \notin {Undefined, <<>>} THEN r.month ELSE <<>>

IsDigits(text) == \A i \in 1..Len(text) : text[i] \in Digits

\* the accepted spellings m-yyyy, mm-yyyy, m/yyyy, mm/yyyy
IsMonthYearText(text) ==
    \E k \in {1, 2} :
        /\ Len(text) = k + 5
        /\ IsDigits(SubSeq(text, 1, k))
        /\ text[k + 1] \in {"-", "/"}
        /\ IsDigits(SubSeq(text, k + 2, k + 5))

\* the canonical key yyyy-mm
IsCanonicalMonth(text) ==
    /\ Len(text) = 7
    /\ IsDigits(SubSeq(text, 1, 4))
    /\ text[5] = "-"
    /\ IsDigits(SubSeq(text, 6, 7))

\* the canonical key of an accepted spelling
CanonicalMonth(text) ==
    SubSeq(text, Len(text) - 3, Len(text)) \o <<"-">>
        \o (IF Len(text) = 6 THEN <<"0">> ELSE <<>>) \o SubSeq(text, 1, Len(text) - 5)

UnparsableMonthRows ==
    {i \in 1..Len(input) : /\ ~IsMonthYearText(MonthText(input[i]))
                           /\ ~IsCanonicalMonth(MonthText(input[i]))}

RowsWithMonth == {i \in 1..Len(input) : MonthText(input[i]) # <<>>}

-----------------------------------------------------------------------------
(* Claims about the target lookup of the dashboard *)

LookedUp == ret.op = "currentTarget"

\* the revenue-target cell of a row under the accepted headers, in the order
\* Rev_target, Revenue_Target, revenue_target, RevenueTarget
RevenueText(r) ==
    IF r.Rev_target \notin {Undefined, <<>>} THEN r.Rev_target
    ELSE IF r.Revenue_Target \notin {Undefined, <<>>} THEN r.Revenue_Target
    ELSE IF r.revenue_target \notin {Undefined, <<>>} THEN r.revenue_target
    ELSE IF r.RevenueTarget \notin {Undefined, <<>>} THEN r.RevenueTarget
    ELSE <<"0">>

\* the amount a revenue cell of digits and thousands dots denotes
Amount(text) == Num(DigitsValue(SelectSeq(text, LAMBDA c : c \in Digits)))

\* the key a row with a month text is filed under
KeyOfRow(r) ==
    IF IsMonthYearText(MonthText(r)) THEN CanonicalMonth(MonthText(r)) ELSE MonthText(r)

\* the rows of the tab filed under a key, and the sum of their revenue targets
RowsOfKey(key) == {i \in RowsWithMonth : KeyOfRow(input[i]) = key}

RECURSIVE AmountOfRows(_)
AmountOfRows(rows) ==
    IF rows = {} THEN Zero
    ELSE LET i == CHOOSE k \in rows : TRUE
         IN  RAdd(Amount(RevenueText(input[i])), AmountOfRows(rows \ {i}))

\* the range end lies in the month a canonical key names
EndsInMonth(end, key) ==
    /\ CivilFromDays(LocalDay(end)).y = DigitsValue(SubSeq(key, 1, 4))
    /\ CivilFromDays(LocalDay(end)).m = DigitsValue(SubSeq(key, 6, 7))

\* C11: every row whose month is spelled m-yyyy, mm-yyyy, m/yyyy or mm/yyyy
\* is stored under the key yyyy-mm with the revenue target of its cell, under
\* whichever accepted header the cell stands; and the lookup for a date range
\* that ends in that month finds the targets of that key.
C11_AcceptedSpellingsAreFound ==
    LookedUp =>
        \A i \in RowsWithMonth :
            IsMonthYearText(MonthText(input[i])) =>
                /\ \E j \in 1..Len(targets) :
                      /\ targets[j].month = CanonicalMonth(MonthText(input[i]))
                      /\ targets[j].revenueTarget = Amount(RevenueText(input[i]))
                /\ EndsInMonth(ret.end, CanonicalMonth(MonthText(input[i]))) =>
                      /\ ret.value # Null
                      /\ Value(ret.value).month = CanonicalMonth(MonthText(input[i]))
                      /\ Value(ret.value).revenueTarget
                            = AmountOfRows(RowsOfKey(CanonicalMonth(MonthText(input[i]))))

\* a lookup that finds a row whose one-digit month had to be padded and whose
\* revenue target stands under the last of the accepted headers
C11_Witness ==
    /\ LookedUp
    /\ ret.value # Null
    /\ \E i \in RowsWithMonth :
          /\ Len(MonthText(input[i])) = 6
          /\ IsMonthYearText(MonthText(input[i]))
          /\ input[i].RevenueTarget = <<"1", "0", ".", "0", "0", "0">>
          /\ EndsInMonth(ret.end, CanonicalMonth(MonthText(input[i])))
          /\ Value(ret.value).revenueTarget = Num(10000)

-----------------------------------------------------------------------------
(* Claims about the efficiency-ratio target *)

\* the efficiency-target cell of a row under MER_Target, mer_target,
\* MERTarget, in that order; Undefined when the row has none
MERText(r) ==
    IF r.MER_Target \notin {Undefined, <<>>} THEN r.MER_Target
    ELSE IF r.mer_target \notin {Undefined, <<>>} THEN r.mer_target
    ELSE IF r.MERTarget \notin {Undefined, <<>>} THEN r.MERTarget
    ELSE Undefined

\* the number a cell of digits with at most one decimal comma or period denotes
Denoted(text) ==
    LET seps == {i \in 1..Len(text) : text[i] \in {",", "."}}
        decimals == IF seps = {} THEN 0 ELSE Len(text) - (CHOOSE i \in seps : TRUE)
    IN  Rat(DigitsValue(SelectSeq(text, LAMBDA c : c \in Digits)), Pow10(decimals))

\* the fraction an efficiency-target cell denotes: p / 100 for a percentage
\* 1 < p <= 100, the number itself for a fraction between 0 and 1, and the
\* default 0.2 for a missing cell
DenotedFraction(text) ==
    IF text = Undefined THEN Rat(2, 10)
    ELSE IF RLess(Num(1), Denoted(text)) THEN RDiv(Denoted(text), Num(100))
    ELSE Denoted(text)

InUnitInterval(x) == ~RLess(x, Zero) /\ ~RLess(Num(1), x)

\* C12: the stored efficiency target of every stored row is the fraction its
\* cell denotes (percentage / 100, a comma or period fraction unchanged, 0.2
\* when the row has no such cell) and lies within [0, 1].
C12_EfficiencyTargetIsDenotedFraction ==
    TargetsReturned =>
        \A i \in RowsWithMonth :
            LET stored == targets[Cardinality({j \in RowsWithMonth : j <= i})].merTarget
            IN  /\ stored = DenotedFraction(MERText(input[i]))
                /\ InUnitInterval(stored)

-----------------------------------------------------------------------------
(* Claims about the date metadata of harmonized records *)

\* C13: every metric of a harmonized dataset, parsed or gap-filled, has a
\* weekOfMonth between 1 and 5.
C13_WeekOfMonthWithinFive ==
    HarmonizeReturned =>
        \A i \in 1..Len(ret.value.metrics) : ret.value.metrics[i].weekOfMonth \in 1..5

\* the yyyy-MM-dd text of the calendar day of a date in the process time zone
DayText(t) ==
    LET c == CivilFromDays(LocalDay(t)) IN DateText("yyyy-MM-dd", c.y, c.m, c.d)

NamesItsDay(record) == record.dateString = DayText(record.date)

\* C14: at every time-zone offset every metric (parsed or gap-filled) and
\* every event of a harmonized dataset has a dateString that names the
\* calendar day of its date field, and the metric of a d-m-yyyy sheet row has
\* exactly the calendar day the row names.
C14_DateStringNamesTheDay ==
    /\ LiveBatchReturned =>
          /\ Len(liveData) = 2
          /\ LocalDay(liveData[1].date) = input
          /\ LocalDay(liveData[2].date) = input + 2
    /\ HarmonizeReturned =>
          /\ \A i \in 1..Len(ret.value.metrics) : NamesItsDay(ret.value.metrics[i])
          /\ \A i \in 1..Len(ret.value.events) : NamesItsDay(ret.value.events[i])

-----------------------------------------------------------------------------
(* Claims about the year-over-year comparison *)

YoYReturned == ret.op = "calculateYoYComparison"

\* the calendar day of a record in the process time zone
CivilOf(m) == CivilFromDays(LocalDay(m.date))

\* the reference records on the same month and day one year before the
\* current record
SameDayLastYear ==
    {i \in 1..Len(input.historicalMetrics) :
        /\ CivilOf(input.historicalMetrics[i]).y = CivilOf(input.currentMetrics[1]).y - 1
        /\ CivilOf(input.historicalMetrics[i]).m = CivilOf(input.currentMetrics[1]).m
        /\ CivilOf(input.historicalMetrics[i]).d = CivilOf(input.currentMetrics[1]).d}

\* the variance entry says that nothing was subtracted from the current record
NothingSubtracted(v, c) ==
    /\ v.previousRevenue = Zero
    /\ v.revenueVariance = c.totalRevenue
    /\ v.ordersVariance = c.orders
    /\ v.spendVariance = c.totalSpend

\* the variance entry says that the reference record h was subtracted
Subtracted(v, c, h) ==
    /\ v.previousRevenue = h.totalRevenue
    /\ v.revenueVariance = RSub(c.totalRevenue, h.totalRevenue)
    /\ v.ordersVariance = RSub(c.orders, h.orders)
    /\ v.spendVariance = RSub(c.totalSpend, h.totalSpend)

\* C15: in exact-date mode the counterpart of a current record is a reference
\* record of the same month and day and of the year before; when there is
\* none (as for 29 February) the record has no counterpart.
C15_ExactModeCounterpart ==
    (YoYReturned /\ ~input.alignByDayOfWeek) =>
        IF SameDayLastYear = {}
        THEN NothingSubtracted(ret.value.variance[1], input.currentMetrics[1])
        ELSE \E i \in SameDayLastYear :
                Subtracted(ret.value.variance[1], input.currentMetrics[1],
                           input.historicalMetrics[i])

\* exact mode finds the record of 1 March 2023 behind a record of the same
\* month and day of another year
C15_Witness ==
    /\ YoYReturned
    /\ ~input.alignByDayOfWeek
    /\ SameDayLastYear = {2}
    /\ CivilOf(input.historicalMetrics[1]).m = CivilOf(input.currentMetrics[1]).m
    /\ CivilOf(input.historicalMetrics[1]).d = CivilOf(input.currentMetrics[1]).d
    /\ ret.value.variance[1].ordersVariance
          = RSub(input.currentMetrics[1].orders, input.historicalMetrics[2].orders)

\* the reference records on the day the mode looks for
Counterparts ==
    IF input.alignByDayOfWeek
    THEN {i \in 1..Len(input.historicalMetrics) :
             LocalDay(input.historicalMetrics[i].date)
                = LocalDay(alignDateByDayOfWeek(input.currentMetrics[1].date))}
    ELSE SameDayLastYear

\* C16: in both modes a current record without counterpart has
\* previousRevenue 0 and variances equal to its own revenue, orders and
\* spend; revenueVariancePercent is 0 whenever the counterpart is missing or
\* has revenue 0.
C16_MissingCounterpartCountsAsZero ==
    YoYReturned =>
        /\ Counterparts = {} =>
              /\ NothingSubtracted(ret.value.variance[1], input.currentMetrics[1])
              /\ ret.value.variance[1].revenueVariancePercent = Zero
        /\ (/\ Counterparts # {}
            /\ \A i \in Counterparts :
                  (\A j \in Counterparts : i <= j)
                     => input.historicalMetrics[i].totalRevenue = Zero)
              => ret.value.variance[1].revenueVariancePercent = Zero

\* day-of-week mode, reference records on other days only, and a current
\* record with revenue
C16_Witness ==
    /\ YoYReturned
    /\ input.alignByDayOfWeek
    /\ Len(input.historicalMetrics) = MaxReference
    /\ Counterparts = {}
    /\ RPositive(input.currentMetrics[1].totalRevenue)
    /\ ret.value.variance[1].revenueVariance = input.currentMetrics[1].totalRevenue


-----------------------------------------------------------------------------
(* Claims about aggregation by date *)

AggregateReturned == ret.op = "aggregateByDate"

DatesOf(metrics) == {metrics[i].dateString : i \in 1..Len(metrics)}

\* C17: aggregateByDate is associative on the additive fields: for any two
\* metric lists A and B, aggregating the aggregate of A followed by the
\* aggregate of B gives the same dates as aggregating A followed by B and,
\* for each date, equal revenueWeb, revenueApp, totalRevenue, orders, spendFB,
\* spendGoogle, totalSpend, clicksFB, clicksGoogle, totalClicks and
\* contributionMargin.
C17_AggregationIsAssociative ==
    AggregateReturned =>
        /\ DatesOf(ret.ofParts) = DatesOf(ret.ofAll)
        /\ \A i \in 1..Len(ret.ofParts), j \in 1..Len(ret.ofAll) :
              ret.ofParts[i].dateString = ret.ofAll[j].dateString =>
                  \A f \in AdditiveFields : ret.ofParts[i][f] = ret.ofAll[j][f]


\* the records of a date, in the order of the list
RecordsOfDate(metrics, dateString) ==
    LET OfDate(m) == m.dateString = dateString
    IN  SelectSeq(metrics, OfDate)

\* the sum of a field over the first k records, added up in their order
RECURSIVE SumOfField(_, _, _)
SumOfField(records, f, k) ==
    IF k = 1 THEN records[1][f]
    ELSE FAdd(SumOfField(records, f, k - 1), records[k][f])

\* the ratios of a record are those of its own sums
RatiosOfSums(m) ==
    /\ m.aov = IF m.orders = FZero THEN FZero ELSE FDiv(m.totalRevenue, m.orders)
    /\ m.mer = IF m.totalRevenue = FZero THEN FZero ELSE FDiv(m.totalSpend, m.totalRevenue)
    /\ m.roasFB = IF m.spendFB = FZero THEN FZero
                  ELSE FDiv(FMul(m.revenueWeb, Double(6, 10)), m.spendFB)
    /\ m.roasGoogle = IF m.spendGoogle = FZero THEN FZero
                      ELSE FDiv(FMul(m.revenueWeb, Double(4, 10)), m.spendGoogle)

AggregateOf(metrics, aggregated) ==
    /\ Len(aggregated) = Cardinality(DatesOf(metrics))
    /\ DatesOf(aggregated) = DatesOf(metrics)
    /\ \A i \in 1..Len(aggregated) :
          LET SumsOf(records) ==
                  \A f \in AdditiveFields :
                      aggregated[i][f] = SumOfField(records, f, Len(records))
          IN  /\ aggregated[i].label = "All"
              /\ SumsOf(RecordsOfDate(metrics, aggregated[i].dateString))
              /\ RatiosOfSums(aggregated[i])

\* C18: for any metric list, aggregateByDate returns exactly one record per
\* distinct date of the list, labelled 'All', whose additive fields are the
\* sums over the records of that date and whose derived fields are computed
\* from those sums: aov = totalRevenue / orders (0 if orders is 0), mer =
\* totalSpend / totalRevenue (0 if totalRevenue is 0), roasFB and roasGoogle
\* from the summed web revenue and the summed spend of the platform (0 if
\* that spend is 0); the ratios of the records are never averaged.
C18_OneRecordPerDateFromSums ==
    AggregateReturned =>
        \A call \in {[of |-> input.A, is |-> ret.ofA],
                     [of |-> input.B, is |-> ret.ofB],
                     [of |-> input.A \o input.B, is |-> ret.ofAll],
                     [of |-> ret.ofA \o ret.ofB, is |-> ret.ofParts]} :
            AggregateOf(call.of, call.is)

\* two records of one day with different order values and a day without
\* sales were aggregated: the order value of the first day is that of the
\* sums, not the mean of the two, and the ratios of the second day are 0
C18_Witness ==
    /\ AggregateReturned
    /\ Len(ret.ofAll) = 2
    /\ \E i, j \in 1..Len(input.A \o input.B) :
          /\ (input.A \o input.B)[i].dateString = ret.ofAll[1].dateString
          /\ (input.A \o input.B)[j].dateString = ret.ofAll[1].dateString
          /\ (input.A \o input.B)[i].aov # (input.A \o input.B)[j].aov
          /\ ret.ofAll[1].aov # (input.A \o input.B)[i].aov
          /\ ret.ofAll[1].aov # (input.A \o input.B)[j].aov
    /\ FPositive(ret.ofAll[1].roasGoogle)
    /\ ret.ofAll[2].orders = FZero
    /\ ret.ofAll[2].aov = FZero


-----------------------------------------------------------------------------
(* Claims about pacing *)

PacingReturned == ret.op = "calculatePacing"

\* C19: for every target with revenueTarget > 0 and every reference date
\* that is the last day of its month (daysPassed = daysInMonth), if the
\* current revenue of the month equals target.revenueTarget then
\* calculatePacing returns pacingPercentage = 100, projectedPercentage = 100
\* and onTrack = true.
C19_TargetMetOnLastDay ==
    ( /\ PacingReturned
      /\ FPositive(input.target.revenueTarget)
      /\ ret.value.daysPassed = ret.value.daysInMonth
      /\ ret.value.currentRevenue = input.target.revenueTarget )
        => /\ ret.value.pacingPercentage = Double(100, 1)
           /\ ret.value.projectedPercentage = Double(100, 1)
           /\ ret.value.onTrack

\* p >= percent / 100 * t, exactly, for doubles p >= 0 and t >= 0
AtLeastPercentOf(p, percent, t) ==
    LET lower == IF p.e < t.e THEN p.e ELSE t.e
    IN  ~NatLess(NatMul(Shift(p.m, p.e - lower), <<100>>),
                 NatMul(Shift(t.m, t.e - lower), <<percent>>))

\* C20: calculatePacing sets onTrack to true exactly when the projected
\* month-end revenue is at least 95% of target.revenueTarget, for every
\* target (revenueTarget = 0 included) and every set of metrics.
C20_OnTrackIffProjectedReaches95Percent ==
    PacingReturned =>
        (ret.value.onTrack
            <=> AtLeastPercentOf(ret.value.projectedRevenue, 95, input.target.revenueTarget))


\* the sum of totalRevenue over the first k records of the list that lie in
\* the month and year of the reference date (now) and on or before its day
RECURSIVE MonthToDate(_, _, _)
MonthToDate(metrics, now, k) ==
    IF k = 0 THEN FZero
    ELSE IF /\ GetFullYear(metrics[k].date) = GetFullYear(now)
            /\ GetMonth(metrics[k].date) = GetMonth(now)
            /\ GetDate(metrics[k].date) <= GetDate(now)
    THEN FAdd(MonthToDate(metrics, now, k - 1), metrics[k].totalRevenue)
    ELSE MonthToDate(metrics, now, k - 1)

\* C21: the currentRevenue returned by calculatePacing is month-to-date: it
\* is the sum of totalRevenue over exactly those given metrics whose date
\* lies in the month and year of the reference date and on or before the
\* reference day; records of other months, other years or later days of the
\* month are not counted.
C21_CurrentRevenueIsMonthToDate ==
    PacingReturned =>
        ret.value.currentRevenue =
            MonthToDate(input.metrics, input.referenceDate, Len(input.metrics))


\* |a - b| <= a / 2^50 for doubles a >= 0 and b >= 0: a and b differ by
\* rounding errors only
WithinRounding(a, b) ==
    LET Scaled(d) == [neg |-> FALSE, m |-> d.m, e |-> d.e + 50]
    IN  ~FSub(a, Scaled(FSub(a, b))).neg

-----------------------------------------------------------------------------
(* Claims about the efficiency status *)

MERReturned == ret.op = "calculateMERStatus"

\* the sum of a field over the records, in the order of the list
RECURSIVE TotalOf(_, _, _)
TotalOf(metrics, field, k) ==
    IF k = 0 THEN FZero ELSE FAdd(TotalOf(metrics, field, k - 1), metrics[k][field])

\* value < bound, for doubles
Below(value, bound) == FSub(value, bound).neg

\* C22: calculateMERStatus returns value = totalSpend / totalRevenue (0 when
\* totalRevenue is 0), the status of the band the value lies in (excellent
\* below 0.15, good from 0.15 to below 0.20, warning from 0.20 to below 0.25,
\* danger from 0.25), and as threshold the boundary that determined the
\* status: value < threshold for excellent, good and warning, and
\* value >= threshold for danger.
C22_ThresholdDeterminesStatus ==
    MERReturned =>
        LET value == ret.value.value
            status == ret.value.status
            threshold == ret.value.threshold
            totalRevenue == TotalOf(input, "totalRevenue", Len(input))
        IN  /\ value = IF totalRevenue = FZero THEN FZero
                       ELSE FDiv(TotalOf(input, "totalSpend", Len(input)), totalRevenue)
            /\ status = "excellent" <=> Below(value, Double(15, 100))
            /\ status = "good" <=> ~Below(value, Double(15, 100)) /\ Below(value, Double(20, 100))
            /\ status = "warning" <=> ~Below(value, Double(20, 100)) /\ Below(value, Double(25, 100))
            /\ status = "danger" <=> ~Below(value, Double(25, 100))
            /\ status \in {"excellent", "good", "warning"} => Below(value, threshold)
            /\ status = "danger" => ~Below(value, threshold)

-----------------------------------------------------------------------------
(* Claims about the CSV export *)

CSVReturned == ret.op = "parseCSV"

\* the data lines of the file that are not blank, as lists of cells
WrittenLines ==
    SelectSeq(input.lines,
        LAMBDA cells : Len(cells) > 1 \/ (Len(cells) = 1 /\ Trim(cells[1].text) # <<>>))

\* the delimiter the header line of the file decides: it holds a semicolon
\* iff the file is written with semicolons and has more than one name
HeaderDelimiter == IF input.separator = ";" /\ Len(input.names) > 1 THEN ";" ELSE ","

\* the texts of the cells of a line with the separator between them
RECURSIVE LineText(_, _)
LineText(cells, separator) ==
    IF Len(cells) = 0 THEN <<>>
    ELSE IF Len(cells) = 1 THEN cells[1].text
    ELSE cells[1].text \o <<separator>> \o LineText(Tail(cells), separator)

\* C23: parseCSV splits at ';' if the header line contains a semicolon and
\* at ',' otherwise; a double-quoted field that contains the delimiter is
\* one field, with the delimiter kept and the quotes removed; every row has
\* exactly the header names as keys, with '' for missing trailing values;
\* there is one row per non-blank line after the header.
C23_RowsOfTheFile ==
    CSVReturned =>
        /\ Len(ret.value) = Len(WrittenLines)
        /\ \A k \in 1..Len(ret.value) :
              /\ DOMAIN ret.value[k] = {input.names[i] : i \in 1..Len(input.names)}
              /\ HeaderDelimiter = input.separator =>
                    \A i \in 1..Len(input.names) :
                       ret.value[k][input.names[i]] =
                           IF i <= Len(WrittenLines[k]) THEN WrittenLines[k][i].value ELSE <<>>
              /\ /\ HeaderDelimiter # input.separator
                 /\ \A i \in 1..Len(WrittenLines[k]) :
                       \A j \in 1..Len(WrittenLines[k][i].text) :
                          WrittenLines[k][i].text[j] # ","
                 => ret.value[k][input.names[1]] =
                        SelectSeq(Trim(LineText(WrittenLines[k], input.separator)),
                                  LAMBDA c : c # "\"")

\* a file of two names written with semicolons, with a blank line, whose
\* data line holds a quoted field with a semicolon and lacks the second value
C23_Witness ==
    /\ CSVReturned
    /\ input.separator = ";"
    /\ input.names = <<<<"a">>, <<"b">>>>
    /\ Len(input.lines) = 1
    /\ Len(input.lines[1]) = 1
    /\ input.lines[1][1].text = <<"\"", "1", ";", "5", "\"">>
    /\ \E i \in 1..(Len(input.csv) - 2) : input.csv[i] = "\n" /\ input.csv[i + 2] = "\r"
    /\ ret.value = <<[h \in {<<"a">>, <<"b">>} |-> IF h = <<"a">> THEN <<"1", ";", "5">> ELSE <<>>]>>

-----------------------------------------------------------------------------
(* Claims about the refresh cycle *)

RefreshFailed == ret.op = "queryFn" /\ ret.status = "error"
RefreshSucceeded == ret.op = "harmonize"

\* the dataset of a harmonizer that was given only the live rows
OfLiveRowsOnly(rows) ==
    LET Live(metrics) ==
            [metrics |-> SortByDate(metrics),
             targets |-> <<>>,
             events |-> <<>>,
             sources |-> IF Len(metrics) > 0
                         THEN <<[type |-> "live", year |-> GetFullYear(metrics[1].date),
                                 data |-> metrics]>>
                         ELSE <<>>]
        Transformed(data) == Live([i \in 1..Len(data) |-> toCompatibleMetrics(data[i])])
    IN  Transformed(transformSheetData(rows).data)

\* how far the cycle has come
StepsDone ==
    CASE ret.op = "none" -> 0
      [] ret.op = "addLiveDataEuropean" -> 1
      [] ret.op = "addTargets" -> 2
      [] OTHER -> 3

\* the Targets tab gives nothing: its fetch failed or returned no rows
NoTargetRows == ~input.targets.fetched \/ Len(input.targets.rows) = 0

\* C24: in a refresh cycle only a failure to fetch the live daily rows fails
\* the cycle: if the live fetch fails the cycle ends in failure and produces
\* no dataset; if the live fetch succeeds and the Targets fetch fails or
\* returns no rows, the cycle still succeeds and returns a dataset built from
\* the live rows with an empty targets list; malformed rows never fail the
\* cycle.  Stated on the steps of the cycle: each step brings the cycle
\* nearer to its end, a failed live fetch is followed by the failure, live
\* rows of any kind by the Targets fetch, and the Targets fetch, with rows of
\* any kind or none, by the returned dataset.
C24_OnlyLiveFetchFails ==
    /\ [](RefreshFailed => ~input.live.fetched)
    /\ [](~input.live.fetched => ~RefreshSucceeded)
    /\ [](~input.live.fetched /\ ~RefreshFailed => ENABLED LiveFetchFailed)
    /\ [](ret.op = "addTargets" \/ (ret.op = "addLiveDataEuropean" /\ NoTargetRows)
            => ENABLED RefreshReturns)
    /\ [][/\ StepsDone' > StepsDone
          /\ ret = NoCall /\ ~input.live.fetched => RefreshFailed'
          /\ ret = NoCall /\ input.live.fetched => ret'.op = "addLiveDataEuropean"
          /\ ret.op = "addLiveDataEuropean" /\ ~NoTargetRows => ret'.op = "addTargets"
          /\ ret.op = "addLiveDataEuropean" /\ NoTargetRows => RefreshSucceeded'
          /\ ret.op = "addTargets" => RefreshSucceeded']_vars
    /\ [](RefreshSucceeded /\ NoTargetRows => ret.value = OfLiveRowsOnly(input.live.rows))

\* a cycle whose Targets fetch failed returned the dataset of live rows of
\* which one is malformed
C24_Witness ==
    /\ RefreshSucceeded
    /\ ~input.targets.fetched
    /\ input.live.rows = <<Sheet.JunkDate, Sheet.NL31>>
    /\ Len(ret.value.metrics) = 1
    /\ ret.value.targets = <<>>
    /\ errors # <<>>

-----------------------------------------------------------------------------
(* Claims about European numbers *)

NumberReturned == ret.op = "parseEuropeanNumber"

\* C25: parseEuropeanNumber always returns a finite number: 0 for undefined,
\* null, the empty string and any text that does not start with a number,
\* and for a canonical European-formatted number (periods as thousands
\* separators, one comma as decimal separator) the value of that number, as
\* "1.633,50" gives 1633.5.
C25_FiniteValueOfTheText ==
    NumberReturned =>
        /\ Len(ret.value) = 2 /\ ret.value[2] # 0
        /\ input.kind \in {"undefined", "text"} => ret.value = Zero
        /\ input.kind = "number" => ret.value = input.denotes

-----------------------------------------------------------------------------
(* Claims about the dashboard filters *)

\* the number of calendar days a range covers, both ends counted
DaysCovered(range) == LocalDay(range.end) - LocalDay(range.start) + 1

\* back is date one year earlier: the same month, day and time of day of the
\* year before (the last day of the month for 29 February)
OneYearBack(date, back) ==
    LET last == GetDate(NewDate(GetFullYear(date) - 1, GetMonth(date) + 1, 0))
    IN  /\ GetFullYear(back) = GetFullYear(date) - 1
        /\ GetMonth(back) = GetMonth(date)
        /\ GetDate(back) = IF GetDate(date) > last THEN last ELSE GetDate(date)
        /\ back - LocalDay(back) * HoursPerDay = date - LocalDay(date) * HoursPerDay

-----------------------------------------------------------------------------
(* Claims about the counterparts of a month *)

\* C27: weekday-position alignment is injective within a month: no two
\* different current dates of the same month are aligned by
\* alignDateByDayOfWeek to the same prior-year date (so that, with one record
\* per day in both series, calculateYoYComparison uses no reference record as
\* counterpart of more than one current day).
C27_AlignmentInjectiveInMonth ==
    Aligned =>
        \A day \in 1..31 :
           LET other == NewDate(GetFullYear(input), GetMonth(input), day)
           IN  GetMonth(other) = GetMonth(input) /\ other # input
                  => alignDateByDayOfWeek(other) # ret.value

-----------------------------------------------------------------------------
(* Claims about the chart series *)

ChartReturned == ret.op = "formatChartData" /\ ret.yoyComparison # Null

\* C28: the chart series produced by formatChartData from a comparison is
\* consistent with that comparison: for every index i the comparison value
\* shown for the day (revenueYoY) is the totalRevenue of the counterpart that
\* calculateYoYComparison used for current record i, so that
\* variance[i] = revenue[i] - revenueYoY[i] whenever a counterpart exists,
\* and revenueYoY is absent when none exists, in both alignment modes and
\* for any reference series.
C28_ChartShowsTheCounterpart ==
    ChartReturned =>
        \A i \in 1..Len(input.currentMetrics) :
           LET previous == FindPrevious(input.currentMetrics[i], input.historicalMetrics,
                                        input.alignByDayOfWeek)
               point == ret.value[i]
           IN  IF previous = Null
               THEN point.revenueYoY = Null
               ELSE /\ point.revenueYoY = Some(Value(previous).totalRevenue)
                    /\ point.variance = Some(RSub(point.revenue, Value(point.revenueYoY)))

-----------------------------------------------------------------------------
(* Claims about the summaries of the add operations *)

\* the summary returned by this step counts `placed` records and, with its
\* errors, no more than the rows given
Summarises(placed, rows) ==
    /\ ret'.success = placed
    /\ ret'.success + ret'.errors <= rows

\* C29: for every add operation of the harmonizer (addHistoricalData,
\* addLiveData, addLiveDataEuropean, addTargets, addEvents) the returned
\* success count equals the number of records that this call placed in the
\* accumulator, and success + errors never exceeds the number of input
\* rows; for addHistoricalData(rows, year) the success count is the number
\* of records added to the historical accumulator for that year.
C29_SuccessCountsRecordsPlaced ==
    [][/\ \A rawData \in Batches.Json, year \in Batches.Years :
             AddHistoricalData(rawData, year)
                => /\ Summarises(Len(historicalData') - Len(historicalData), Len(rawData))
                   /\ \A i \in Len(historicalData) + 1..Len(historicalData') :
                         GetFullYear(historicalData'[i].date) = year
       /\ \A rawData \in Batches.Json :
             AddLiveData(rawData) => Summarises(Len(liveData'), Len(rawData))
       /\ \A rawData \in Batches.Sheet :
             AddLiveDataEuropean(rawData) => Summarises(Len(liveData'), Len(rawData))
       /\ \A rawData \in Batches.Targets :
             AddTargets(rawData) => Summarises(Len(targets'), Len(rawData))
       /\ \A rawData \in Batches.Events :
             AddEvents(rawData) => Summarises(Len(events'), Len(rawData))]_vars

=============================================================================
